---- MODULE Spec2Model ----
(***************************************************************************)
(* The transaction authorization control plane of the Finvoice backend:    *)
(* RedisService (services/redis_service.py) over a key-value store with    *)
(* per-key time-to-live, and the handlers of main.py and                   *)
(* auth/auth_manager.py that call it.                                      *)
(*                                                                         *)
(* Every store command (GET, SETEX, DEL, INCR, TTL, EXISTS) is one atomic  *)
(* step. A handler is a process that moves from one store command to the   *)
(* next, so that other handlers and the passing of time interleave between *)
(* two commands of one call.                                               *)
(***************************************************************************)
EXTENDS Integers, Sequences, FiniteSets, TLC

VARIABLES
    redis,      \* the store: a function from the keys that exist to [val, ttl]
    vp,         \* the verify_otp calls: position, arguments, locals, result
    otpHist,    \* history of each OTP key since its last issuance
    lp,         \* the login requests: position, arguments, locals, answer
    rateHist,   \* history of each rate-limit key
    ap,         \* the requests that present a token: position, arguments, answer
    tokens,     \* the access tokens issued: subject, type, seconds of validity left
    loggedOut,  \* history: the tokens a logout was answered 200 for
    blHist,     \* history of each token string: its last blacklist_token call
    closed,     \* history: the users logged out, with no other request of theirs
                \* in flight (or with one, when "deleted" is observed), who have
                \* not logged in since
    env,        \* the environment: the settings read at startup, the store's state
    observe,    \* which parts of the history this run records (fixed by Init)
    now         \* the clock, in seconds; it runs in the runs that observe "clock"

vars == <<redis, vp, otpHist, lp, rateHist, ap, tokens, loggedOut, blHist, closed,
          env, observe, now>>

\* what the OTP operations leave alone, and what the login does
notOtp == <<lp, rateHist, ap, tokens, loggedOut, blHist, closed, env, observe, now>>
notLogin == <<vp, otpHist, ap, loggedOut, blHist, closed, env, observe, now>>
notAuth == <<vp, otpHist, lp, rateHist, tokens, blHist, closed, env, observe, now>>
notBlacklist == <<vp, otpHist, lp, rateHist, tokens, loggedOut, closed, env, observe, now>>
notTransfer == <<vp, lp, rateHist, tokens, loggedOut, blHist, closed, env, observe, now>>

(***************************************************************************)
(* Bounds of the model.                                                    *)
(***************************************************************************)
TickSeconds == 150
AuthTickSeconds == 450
LongTickSeconds == 302400
HistCap == 7

Procs == {"p1", "p2"}
Users == {"U1", "U2"}
Txns == {"TXN1"}
FlowTxns == {"TXN1", "TXN2"}
FlowCodes == {"123456"}
VoiceProcs == {"p2"}
Codes == {"123456", "654321"}
Emails == {"rahul@demo.com"}
TokenNames == {"T1", "T2"}
Schemes == {"Bearer", "bearer"}
RefreshNames == {"R1"}

(***************************************************************************)
(* Program constants.                                                      *)
(***************************************************************************)
MaxAttempts == 3
OtpExpiryMinutes == 5
LoginMaxRequests == 5
LoginWindowMinutes == 5
SessionExpiryMinutes == 15
AccessTokenExpireMinutes == 15
BlacklistAccessMinutes == 15
BlacklistRefreshMinutes == 10080
VoiceSessionExpiryMinutes == 1440
RefreshTokenExpireDays == 7

(***************************************************************************)
(* The store. A key that exists is in DOMAIN of the store; its ttl is the  *)
(* number of seconds it has left, or NoExpiry for a key without expiry.    *)
(* TTL answers KeyMissing for a key that does not exist.                   *)
(***************************************************************************)
NoExpiry == -1
KeyMissing == -2

Minutes(m) == m * 60
Days(d) == d * 86400

KeyExists(s, k) == k \in DOMAIN s

SetEx(s, k, seconds, v) ==
    [x \in DOMAIN s \cup {k} |-> IF x = k THEN [val |-> v, ttl |-> seconds] ELSE s[x]]

Del(s, k) == [x \in DOMAIN s \ {k} |-> s[x]]

Ttl(s, k) == IF KeyExists(s, k) THEN s[k].ttl ELSE KeyMissing

\* SETEX answers an error for an expiry that is not positive
SetExRaises(seconds) == seconds <= 0

\* INCR: a key that does not exist is created at 1 without expiry
Incr(s, k) ==
    IF KeyExists(s, k)
    THEN [s EXCEPT ![k].val = @ + 1]
    ELSE [x \in DOMAIN s \cup {k} |->
             IF x = k THEN [val |-> 1, ttl |-> NoExpiry] ELSE s[x]]

\* the store after dt seconds have passed: every key with an expiry has that
\* much less to live, and a key with nothing left is gone
Expire(s, dt) ==
    LET live == {k \in DOMAIN s : s[k].ttl = NoExpiry \/ s[k].ttl > dt}
    IN  [k \in live |-> IF s[k].ttl = NoExpiry THEN s[k]
                        ELSE [s[k] EXCEPT !.ttl = @ - dt]]

(***************************************************************************)
(* OTP records.                                                            *)
(***************************************************************************)
\* a faulty variant: one record for a transaction, whoever the user is
otp_key_shared(user_id, transaction_id) == <<"otp", "U1", transaction_id>>

otp_key(user_id, transaction_id) == <<"otp", user_id, transaction_id>>

\* the transaction id of a transfer: "TXN" and the clock's whole second
TransactionId(t) == "TXN" \o ToString(t)

ClockTicks == 2
ClockTimes == {i * TickSeconds : i \in 0..ClockTicks}
ClockTxns == {TransactionId(t) : t \in ClockTimes}

OtpKeys ==
    {otp_key(u, t) : u \in Users, t \in Txns \cup FlowTxns \cup ClockTxns \cup {"null"}}

otp_data(otp, transaction_id, user_id, attempts) ==
    [otp |-> otp, transaction_id |-> transaction_id, user_id |-> user_id,
     attempts |-> attempts]

NoData == otp_data("", "", "", -1)

Result(valid, message, attempts_left) ==
    [valid |-> valid, message |-> message, attempts_left |-> attempts_left]

NoResult == Result(FALSE, "", -1)

MsgNotFound == "OTP expired or not found"
MsgExhausted == "Maximum OTP attempts exceeded"
MsgVerified == "OTP verified successfully"
MsgFailed == "OTP verification failed"
MsgInvalid(attempts_left) ==
    "Invalid OTP. " \o ToString(attempts_left) \o " attempts left"

\* a faulty variant: no record answered as a wrong code with attempts left
NotFoundAsInvalid == Result(FALSE, MsgInvalid(1), 1)

\* the answer for a key that holds no record
NotFoundResult == Result(FALSE, MsgNotFound, 0)

\* a call that has its answer keeps its arguments and the answer: its locals are gone
Returned(call, result) ==
    [call EXCEPT !.pc = "done", !.otp_data = NoData, !.remaining_ttl = 0,
                 !.result = result]

VpIdle ==
    [pc |-> "idle", user_id |-> "", transaction_id |-> "", otp |-> "",
     otp_data |-> NoData, remaining_ttl |-> 0, result |-> NoResult]

\* compares: the calls that compared a code with the record; wrongs: the answers
\* "Invalid OTP"; verified: the code a call was answered valid for ("" for none);
\* valids: the answers valid; gone: what became of the last record of the key
\* ("never" issued, "issued", "consumed", "exhausted", "expired"); answered: the
\* values of gone at which a call found no record, over all issuances
NoHist ==
    [compares |-> 0, wrongs |-> 0, verified |-> "", valids |-> 0, gone |-> "never",
     answered |-> {}]

Bump(n) == IF n < HistCap THEN n + 1 ELSE n

\* the history after an event, recorded when the run observes that part of it
Seen(part, h, new) == IF part \in observe THEN new ELSE h

(***************************************************************************)
(* Rate-limit counters and the login request.                              *)
(***************************************************************************)
rate_key(user_id, action) == <<"rate", user_id, action>>

RateKeys == {rate_key(e, "login") : e \in Emails}

RateResult(allowed, remaining, reset_in) ==
    [allowed |-> allowed, remaining |-> remaining, reset_in |-> reset_in]

NoRate == RateResult(FALSE, -1, 0)

\* a faulty variant: a store error counts as a denial
RateFailClosed(max_requests, window_minutes) ==
    RateResult(FALSE, 0, window_minutes * 60)

\* check_rate_limit when a store command raises: allowed
RateFailOpen(max_requests, window_minutes) ==
    RateResult(TRUE, max_requests, window_minutes * 60)

\* there is a store client and its commands get through
Reachable == env.redis_service /\ env.up

\* the store after a write of a service method, which swallows the error of a
\* store that is not reachable; without a client the method is not called
Stored(s) == IF Reachable THEN s ELSE redis

LpIdle ==
    [pc |-> "idle", email |-> "", password_ok |-> FALSE, count |-> 0,
     rate_check |-> NoRate, status |-> 0, access_token |-> ""]

\* calls: the checks answered in the window the key stands for; allowed: those
\* answered allowed; elapsed: a window has run out and no SETEX has begun another
NoRateHist == [calls |-> 0, allowed |-> 0, elapsed |-> FALSE]

\* the accounts of the database: the user of each email
UserOfEmail(email) == IF email = "rahul@demo.com" THEN "U1" ELSE ""

session_key(user_id) == <<"session", user_id>>

(***************************************************************************)
(* Sessions. A payload is a dict, a function from field names to strings;  *)
(* its JSON text is the set of its members, <<name, value>>. None is the   *)
(* string "null".                                                          *)
(***************************************************************************)
EmptyDict == [k \in {} |-> ""]

json_dumps(d) == {<<k, d[k]>> : k \in DOMAIN d}

json_loads(text) ==
    [k \in {m[1] : m \in text} |-> (CHOOSE m \in text : m[1] = k)[2]]

\* d[k] = v
DictSet(d, k, v) == [x \in DOMAIN d \cup {k} |-> IF x = k THEN v ELSE d[x]]

\* the payload login writes
LoginSessionData(email) ==
    [name |-> "Rahul", email |-> email, login_time |-> "now", ip_address |-> "ip"]

\* a faulty variant: the new payload laid over the one in the store
SessionTextMerged(s, user_id, session_data) ==
    LET old == IF KeyExists(s, session_key(user_id))
               THEN json_loads(s[session_key(user_id)].val) ELSE EmptyDict
    IN json_dumps([k \in DOMAIN old \cup DOMAIN session_data |->
                      IF k \in DOMAIN session_data THEN session_data[k] ELSE old[k]])

\* the value create_session stores for a user
SessionText(s, user_id, session_data) == json_dumps(session_data)

\* the store after create_session
SessionCreated(s, user_id, session_data, expiry_minutes) ==
    SetEx(s, session_key(user_id), Minutes(expiry_minutes),
          SessionText(s, user_id, session_data))

\* a faulty variant: the record is left where it is
SessionKept(s, user_id) == s

\* the store after delete_session
SessionDeleted(s, user_id) == Del(s, session_key(user_id))

\* get_session: whether there is a session (the answer is not None), and its
\* payload
HasSession(s, user_id) == KeyExists(s, session_key(user_id))

SessionRead(s, user_id) ==
    IF HasSession(s, user_id) THEN json_loads(s[session_key(user_id)].val)
    ELSE EmptyDict

\* the session records of a user
SessionKeysOf(s, user_id) ==
    {k \in DOMAIN s : k[1] = "session" /\ k[2] = user_id}

(***************************************************************************)
(* Tokens and the requests that present one. A string is a sequence of     *)
(* words: a token is one word, an Authorization header is a scheme and a   *)
(* token.                                                                  *)
(***************************************************************************)
Headers == {<<sc, t>> : sc \in Schemes, t \in TokenNames}

\* a faulty variant: the key made of the beginning of the string only
blacklist_key_prefix(token) == <<"blacklist", Head(token)>>

blacklist_key(token) == <<"blacklist">> \o token

\* the strings a request can present or a logout can blacklist
TokenStrings ==
    {<<t>> : t \in TokenNames \cup RefreshNames}
        \cup {<<sc, t>> : sc \in Schemes \ {"Bearer"}, t \in TokenNames}

\* the last blacklist_token call for a string: the seconds it asked for and the
\* seconds that have passed since, up to that many
NoBlHist == [called |-> FALSE, ttl |-> 0, age |-> 0]

ApIdle ==
    [pc |-> "idle", op |-> "", header |-> << >>, user |-> "", status |-> 0,
     token |-> << >>, result |-> FALSE, order |-> << >>, access_token |-> "",
     session |-> EmptyDict, transaction_id |-> "", otp |-> "", message |-> ""]

\* the settings of auth_manager and the store client of main, as the defaults
\* give them, with the store reachable
DefaultEnv ==
    [redis_service |-> TRUE, up |-> TRUE,
     access_minutes |-> AccessTokenExpireMinutes,
     refresh_days |-> RefreshTokenExpireDays]

EmptyStore == [k \in {} |-> 0]

InitState ==
    /\ redis = EmptyStore
    /\ vp = [p \in Procs |-> VpIdle]
    /\ otpHist = [k \in OtpKeys |-> NoHist]
    /\ lp = [p \in Procs |-> LpIdle]
    /\ rateHist = [k \in RateKeys |-> NoRateHist]
    /\ ap = [p \in Procs |-> ApIdle]
    /\ tokens = EmptyStore
    /\ loggedOut = {}
    /\ blHist = [t \in TokenStrings |-> NoBlHist]
    /\ closed = {}
    /\ now = 0

Init == InitState /\ env = DefaultEnv /\ observe = {}

(***************************************************************************)
(* store_otp: one SETEX of a record with attempts = 0 and the full expiry. *)
(***************************************************************************)
StoreOtpRecord(user_id, otp, transaction_id) ==
    otp_data(otp, transaction_id, user_id, 0)

\* the history of a key at its issuance
Issued(h) ==
    [NoHist EXCEPT !.gone = Seen("gone", h.gone, "issued"), !.answered = h.answered]

StoreOtp(user_id, otp, transaction_id) ==
    LET k == otp_key(user_id, transaction_id) IN
    /\ IF env.up
       THEN /\ redis' = SetEx(redis, k, Minutes(OtpExpiryMinutes),
                              StoreOtpRecord(user_id, otp, transaction_id))
            /\ otpHist' = [otpHist EXCEPT ![k] = Issued(@)]
       ELSE UNCHANGED <<redis, otpHist>>
    /\ UNCHANGED <<vp, notOtp>>

(***************************************************************************)
(* verify_otp, one action per store command of the call.                   *)
(***************************************************************************)
VpKey(p) == otp_key(vp[p].user_id, vp[p].transaction_id)

\* a faulty variant: the attempts check off by one
AttemptsExceededStrict(attempts, max_attempts) == attempts > max_attempts

\* the attempts check of a record that was read
AttemptsExceeded(attempts, max_attempts) == attempts >= max_attempts

\* a faulty variant: a check of the format in place of the comparison
OtpMatchesFormat(stored, submitted) == Len(stored) = Len(submitted)

\* the comparison of the stored code with the submitted one
OtpMatches(stored, submitted) == stored = submitted

\* a faulty variant: a command that raised answered as a verification
StoreFailureVerified == Result(TRUE, MsgVerified, MaxAttempts)

\* the answer of the except clause: a store command of the call raised
StoreFailure == Result(FALSE, MsgFailed, 0)

\* a command of the call is sent while the store is down: it raises, the store
\* stays as it is and the except clause answers
Raised(p) ==
    /\ vp' = [vp EXCEPT ![p] = Returned(@, StoreFailure)]
    /\ UNCHANGED <<redis, otpHist>>

\* The call and its GET. Absent: return. Otherwise the attempts check and the
\* comparison decide which store command comes next.
VerifyOtpGet(p, user_id, transaction_id, otp) ==
    LET k == otp_key(user_id, transaction_id)
        call == [VpIdle EXCEPT !.user_id = user_id,
                               !.transaction_id = transaction_id, !.otp = otp]
    IN
    /\ vp[p].pc = "idle"
    /\ IF ~env.up
       THEN /\ vp' = [vp EXCEPT ![p] = Returned(call, StoreFailure)]
            /\ UNCHANGED otpHist
       ELSE
       IF ~KeyExists(redis, k)
       THEN /\ vp' = [vp EXCEPT ![p] = Returned(call, NotFoundResult)]
            /\ otpHist' = [otpHist EXCEPT ![k].answered =
                               Seen("gone", @, @ \cup {otpHist[k].gone})]
       ELSE LET d == redis[k].val IN
            IF AttemptsExceeded(d.attempts, MaxAttempts)
            THEN /\ vp' = [vp EXCEPT ![p] = [call EXCEPT !.pc = "del_max",
                                                         !.otp_data = d]]
                 /\ UNCHANGED otpHist
            ELSE /\ otpHist' = [otpHist EXCEPT ![k].compares =
                                    Seen("compares", @, Bump(@))]
                 /\ IF OtpMatches(d.otp, otp)
                    THEN vp' = [vp EXCEPT ![p] = [call EXCEPT !.pc = "del_ok",
                                                             !.otp_data = d]]
                    ELSE vp' = [vp EXCEPT ![p] =
                                   [call EXCEPT !.pc = "ttl",
                                       !.otp_data = [d EXCEPT !.attempts = @ + 1]]]
    /\ UNCHANGED <<redis, notOtp>>

\* a faulty variant: the exhausted record is left in the store
VerifyOtpExhaustedNoDelete(p) ==
    /\ vp[p].pc = "del_max"
    /\ vp' = [vp EXCEPT ![p] = Returned(@, Result(FALSE, MsgExhausted, 0))]
    /\ UNCHANGED <<redis, otpHist, notOtp>>

\* attempts >= max_attempts: DEL, "Maximum OTP attempts exceeded"
VerifyOtpDeleteExhausted(p) ==
    /\ vp[p].pc = "del_max"
    /\ IF ~env.up
       THEN Raised(p)
       ELSE /\ redis' = Del(redis, VpKey(p))
            /\ vp' = [vp EXCEPT ![p] = Returned(@, Result(FALSE, MsgExhausted, 0))]
            /\ otpHist' = [otpHist EXCEPT
                              ![VpKey(p)].gone = Seen("gone", @, "exhausted")]
    /\ UNCHANGED notOtp

\* a faulty variant: the verified record is left in the store
VerifyOtpVerifiedNoDelete(p) ==
    /\ vp[p].pc = "del_ok"
    /\ vp' = [vp EXCEPT ![p] = Returned(@, Result(TRUE, MsgVerified,
                                            MaxAttempts - vp[p].otp_data.attempts))]
    /\ otpHist' = [otpHist EXCEPT ![VpKey(p)].verified = Seen("verified", @, vp[p].otp)]
    /\ UNCHANGED <<redis, notOtp>>

\* the codes are equal: DEL, valid
VerifyOtpDeleteVerified(p) ==
    /\ vp[p].pc = "del_ok"
    /\ IF ~env.up
       THEN Raised(p)
       ELSE /\ redis' = Del(redis, VpKey(p))
            /\ vp' = [vp EXCEPT ![p] =
                          Returned(@, Result(TRUE, MsgVerified,
                                             MaxAttempts - vp[p].otp_data.attempts))]
            /\ otpHist' = [otpHist EXCEPT
                              ![VpKey(p)].verified = Seen("verified", @, vp[p].otp),
                              ![VpKey(p)].valids = Seen("valids", @, Bump(@)),
                              ![VpKey(p)].gone = Seen("gone", @, "consumed")]
    /\ UNCHANGED notOtp

\* wrong code: TTL of the key
VerifyOtpTtl(p) ==
    /\ vp[p].pc = "ttl"
    /\ IF ~env.up
       THEN Raised(p)
       ELSE /\ vp' = [vp EXCEPT ![p].pc = "setex",
                                ![p].remaining_ttl = Ttl(redis, VpKey(p))]
            /\ UNCHANGED <<redis, otpHist>>
    /\ UNCHANGED notOtp

\* wrong code: SETEX of the record with attempts + 1 under the TTL that was read;
\* a TTL that is not positive makes SETEX raise, and the except clause answers
VerifyOtpRewrite(p) ==
    LET k == VpKey(p)
        attempts_left == MaxAttempts - vp[p].otp_data.attempts
    IN
    /\ vp[p].pc = "setex"
    /\ IF ~env.up
       THEN Raised(p)
       ELSE
       IF SetExRaises(vp[p].remaining_ttl)
       THEN /\ vp' = [vp EXCEPT ![p] = Returned(@, StoreFailure)]
            /\ UNCHANGED <<redis, otpHist>>
       ELSE /\ redis' = SetEx(redis, k, vp[p].remaining_ttl, vp[p].otp_data)
            /\ vp' = [vp EXCEPT ![p] = Returned(@, Result(FALSE, MsgInvalid(attempts_left),
                                                          attempts_left))]
            /\ otpHist' = [otpHist EXCEPT ![k].wrongs = Seen("wrongs", @, Bump(@))]
    /\ UNCHANGED notOtp

\* the caller has its answer
VerifyOtpReturn(p) ==
    /\ vp[p].pc = "done"
    /\ vp' = [vp EXCEPT ![p] = VpIdle]
    /\ UNCHANGED <<redis, otpHist, notOtp>>

(***************************************************************************)
(* POST /auth/login: check_rate_limit, one action per store command, then  *)
(* authenticate_user, the tokens and create_session.                       *)
(***************************************************************************)
LpKey(p) == rate_key(lp[p].email, "login")

\* a check that lets the call at max_requests through
RateExceededStrict(count, max_requests) == count > max_requests

\* the check of the counter that was read
RateExceeded(count, max_requests) == count >= max_requests

\* authenticate_user: the email is an active user's and the password is the user's
Authenticates(email, password_ok) == UserOfEmail(email) # "" /\ password_ok

\* a faulty variant: the answer of check_rate_limit is not looked at
AfterRateCheckIgnored(call, rate_check, token) ==
    IF ~Authenticates(call.email, call.password_ok)
    THEN [call EXCEPT !.pc = "done", !.rate_check = rate_check, !.status = 401]
    ELSE [call EXCEPT !.pc = "session", !.rate_check = rate_check,
                      !.access_token = token]

\* login once check_rate_limit has answered: 429, or authenticate_user and then
\* 401, or the tokens, with create_session as the next store command
AfterRateCheck(call, rate_check, token) ==
    IF ~rate_check.allowed
    THEN [call EXCEPT !.pc = "done", !.rate_check = rate_check, !.status = 429]
    ELSE IF ~Authenticates(call.email, call.password_ok)
    THEN [call EXCEPT !.pc = "done", !.rate_check = rate_check, !.status = 401]
    ELSE [call EXCEPT !.pc = "session", !.rate_check = rate_check,
                      !.access_token = token]

\* create_access_token: a token string that was never issued before
FreshToken == CHOOSE t \in TokenNames : t \notin DOMAIN tokens

\* create_refresh_token: a token string that was never issued before
FreshRefresh == CHOOSE t \in RefreshNames : t \notin DOMAIN tokens

\* the tokens after create_access_token for a user
WithAccessToken(toks, user_id) ==
    [t \in DOMAIN toks \cup {FreshToken} |->
        IF t = FreshToken
        THEN [sub |-> user_id, type |-> "access",
              left |-> Minutes(env.access_minutes)]
        ELSE toks[t]]

\* the tokens after create_refresh_token for a user; a run follows the refresh
\* tokens when it observes them
WithRefreshToken(toks, user_id) ==
    IF "refresh" \notin observe THEN toks
    ELSE [t \in DOMAIN toks \cup {FreshRefresh} |->
             IF t = FreshRefresh
             THEN [sub |-> user_id, type |-> "refresh",
                   left |-> Days(env.refresh_days)]
             ELSE toks[t]]

\* the tokens after a login went through check_rate_limit
Minted(call, rate_check) ==
    IF rate_check.allowed /\ Authenticates(call.email, call.password_ok)
    THEN WithRefreshToken(WithAccessToken(tokens, UserOfEmail(call.email)),
                          UserOfEmail(call.email))
    ELSE tokens

\* a login that will be given tokens needs strings that were not issued yet
CanMint(call) ==
    Authenticates(call.email, call.password_ok)
    => /\ TokenNames \ DOMAIN tokens # {}
       /\ "refresh" \in observe => RefreshNames \ DOMAIN tokens # {}

\* The request and the GET of check_rate_limit.
LoginGet(p, email, password_ok) ==
    LET k == rate_key(email, "login")
        call == [LpIdle EXCEPT !.email = email, !.password_ok = password_ok]
    IN
    /\ lp[p].pc = "idle"
    /\ Reachable
    /\ IF ~KeyExists(redis, k)
       THEN lp' = [lp EXCEPT ![p] = [call EXCEPT !.pc = "setex_first"]]
       ELSE LET count == redis[k].val IN
            IF RateExceeded(count, LoginMaxRequests)
            THEN lp' = [lp EXCEPT ![p] = [call EXCEPT !.pc = "ttl_deny", !.count = count]]
            ELSE lp' = [lp EXCEPT ![p] = [call EXCEPT !.pc = "incr", !.count = count]]
    /\ UNCHANGED <<redis, rateHist, tokens, notLogin>>

\* no counter: SETEX at 1 for the window, allowed
LoginSetexFirst(p) ==
    LET k == LpKey(p)
        rate_check == RateResult(TRUE, LoginMaxRequests - 1, LoginWindowMinutes * 60)
    IN
    /\ lp[p].pc = "setex_first"
    /\ Reachable
    /\ CanMint(lp[p])
    /\ redis' = SetEx(redis, k, Minutes(LoginWindowMinutes), 1)
    /\ lp' = [lp EXCEPT ![p] = AfterRateCheck(@, rate_check, FreshToken)]
    /\ tokens' = Minted(lp[p], rate_check)
    /\ rateHist' = [rateHist EXCEPT
                       ![k].calls = Seen("calls", @, 1),
                       ![k].allowed = Seen("allowed", @,
                                           IF KeyExists(redis, k) THEN Bump(@) ELSE 1),
                       ![k].elapsed = FALSE]
    /\ UNCHANGED notLogin

\* counter >= max_requests: TTL, denied
LoginTtlDenied(p) ==
    LET k == LpKey(p)
        rate_check == RateResult(FALSE, 0, Ttl(redis, k))
    IN
    /\ lp[p].pc = "ttl_deny"
    /\ Reachable
    /\ lp' = [lp EXCEPT ![p] = AfterRateCheck(@, rate_check, "")]
    /\ rateHist' = [rateHist EXCEPT ![k].calls = Seen("calls", @, Bump(@))]
    /\ UNCHANGED <<redis, tokens, notLogin>>

\* counter < max_requests: INCR
LoginIncr(p) ==
    /\ lp[p].pc = "incr"
    /\ Reachable
    /\ redis' = Incr(redis, LpKey(p))
    /\ lp' = [lp EXCEPT ![p].pc = "ttl_allow"]
    /\ UNCHANGED <<rateHist, tokens, notLogin>>

\* then TTL, allowed
LoginTtlAllowed(p) ==
    LET k == LpKey(p)
        rate_check == RateResult(TRUE, LoginMaxRequests - lp[p].count - 1,
                                 Ttl(redis, k))
    IN
    /\ lp[p].pc = "ttl_allow"
    /\ Reachable
    /\ CanMint(lp[p])
    /\ lp' = [lp EXCEPT ![p] = AfterRateCheck(@, rate_check, FreshToken)]
    /\ tokens' = Minted(lp[p], rate_check)
    /\ rateHist' = [rateHist EXCEPT ![k].calls = Seen("calls", @, Bump(@)),
                                    ![k].allowed = Seen("allowed", @, Bump(@))]
    /\ UNCHANGED <<redis, notLogin>>

\* create_session: SETEX of the session, answer 200 with the token
LoginCreateSession(p) ==
    /\ lp[p].pc = "session"
    /\ redis' = Stored(SessionCreated(redis, UserOfEmail(lp[p].email),
                                      LoginSessionData(lp[p].email),
                                      SessionExpiryMinutes))
    /\ lp' = [lp EXCEPT ![p].pc = "done", ![p].status = 200]
    /\ closed' = closed \ {UserOfEmail(lp[p].email)}
    /\ UNCHANGED <<rateHist, tokens, vp, otpHist, ap, loggedOut, blHist, env, observe, now>>

\* a store command of check_rate_limit raises, the GET or a later one: the
\* answer is allowed, and login goes on to authenticate_user
LoginRateCheckFails(p, email, password_ok) ==
    LET call == IF lp[p].pc = "idle"
                THEN [LpIdle EXCEPT !.email = email, !.password_ok = password_ok]
                ELSE lp[p]
        rate_check == RateFailOpen(LoginMaxRequests, LoginWindowMinutes)
    IN
    /\ lp[p].pc \in {"idle", "setex_first", "ttl_deny", "incr", "ttl_allow"}
    /\ lp[p].pc # "idle" => email = lp[p].email /\ password_ok = lp[p].password_ok
    /\ env.redis_service /\ ~env.up
    /\ CanMint(call)
    /\ lp' = [lp EXCEPT ![p] = AfterRateCheck(call, rate_check, FreshToken)]
    /\ tokens' = Minted(call, rate_check)
    /\ UNCHANGED <<redis, rateHist, notLogin>>

\* no store client: login does not call check_rate_limit
LoginNoClient(p, email, password_ok) ==
    LET call == [LpIdle EXCEPT !.email = email, !.password_ok = password_ok] IN
    /\ lp[p].pc = "idle"
    /\ ~env.redis_service
    /\ CanMint(call)
    /\ lp' = [lp EXCEPT ![p] =
                 IF Authenticates(email, password_ok)
                 THEN [call EXCEPT !.pc = "session", !.access_token = FreshToken]
                 ELSE [call EXCEPT !.pc = "done", !.status = 401]]
    /\ tokens' = Minted(call, [NoRate EXCEPT !.allowed = TRUE])
    /\ UNCHANGED <<redis, rateHist, notLogin>>

LoginReturn(p) ==
    /\ lp[p].pc = "done"
    /\ lp' = [lp EXCEPT ![p] = LpIdle]
    /\ UNCHANGED <<redis, rateHist, tokens, notLogin>>

(***************************************************************************)
(* get_current_user, GET /auth/me and POST /auth/logout.                   *)
(***************************************************************************)
Lower(word) == IF word = "Bearer" THEN "bearer" ELSE word

\* HTTPBearer: the credentials of a header whose scheme is bearer in any case
Credentials(header) == header[2]
BearerAccepted(header) == Len(header) = 2 /\ Lower(header[1]) = "bearer"

\* authorization.replace("Bearer ", ""): every word Bearer that a word follows is
\* taken out, and nothing else
RECURSIVE ReplaceBearer(_)
ReplaceBearer(header) ==
    IF Len(header) < 2 THEN header
    ELSE IF Head(header) = "Bearer" THEN ReplaceBearer(Tail(header))
    ELSE <<Head(header)>> \o ReplaceBearer(Tail(header))

\* is_token_blacklisted: EXISTS of the key of the string
IsTokenBlacklisted(s, token) == KeyExists(s, blacklist_key(token))

\* verify_token: the signature, the expiry and the type
VerifyToken(token, token_type) ==
    /\ token \in DOMAIN tokens
    /\ tokens[token].left > 0
    /\ tokens[token].type = token_type

\* a faulty variant: a token that cannot be looked up counts as revoked
BlacklistLookupClosed(token) == ~Reachable \/ IsTokenBlacklisted(redis, token)

\* the blacklist lookup of a request: none without a store client, and False
\* from is_token_blacklisted when the EXISTS raises
BlacklistLookup(token) == Reachable /\ IsTokenBlacklisted(redis, token)

\* what a path evaluates, in order: the blacklist when there is a store client
LookupThen(rest) == IF env.redis_service THEN <<"blacklist">> \o rest ELSE rest

\* where a handler with store commands of its own starts
FirstStep ==
    [logout |-> "blacklist", initiate |-> "store_otp",
     voice_transfer |-> "voice_store_otp", verify |-> "verify_call",
     voice_otp |-> "votp_get_session"]

\* get_current_user for a request: the blacklist, then the token. /auth/me
\* answers at once; logout goes on to its store commands.
Dependency(call) ==
    LET token == Credentials(call.header) IN
    IF ~BearerAccepted(call.header)
    THEN [call EXCEPT !.pc = "done", !.status = 403]
    ELSE IF BlacklistLookup(<<token>>)
    THEN [call EXCEPT !.pc = "done", !.status = 401, !.order = LookupThen(<< >>)]
    ELSE IF ~VerifyToken(token, "access")
    THEN [call EXCEPT !.pc = "done", !.status = 401,
                      !.order = LookupThen(<<"verify">>)]
    ELSE IF call.op \in DOMAIN FirstStep
    THEN [call EXCEPT !.pc = FirstStep[call.op], !.user = tokens[token].sub,
                      !.order = LookupThen(<<"verify">>)]
    ELSE [call EXCEPT !.pc = "done", !.status = 200, !.user = tokens[token].sub,
                      !.order = LookupThen(<<"verify">>)]

\* A request with a token and no form field.
GetCurrentUser(p, op, header) ==
    /\ ap[p].pc = "idle"
    /\ ap' = [ap EXCEPT ![p] = Dependency([ApIdle EXCEPT !.op = op,
                                                         !.header = header])]
    /\ UNCHANGED <<redis, loggedOut, notAuth>>

\* POST /auth/logout with the refresh token in the form
LogoutWithRefresh(p, header, refresh_token) ==
    /\ ap[p].pc = "idle"
    /\ ap' = [ap EXCEPT ![p] = Dependency([ApIdle EXCEPT !.op = "logout",
                                                         !.header = header,
                                                         !.token = refresh_token])]
    /\ UNCHANGED <<redis, loggedOut, notAuth>>

\* get_current_user_optional: the user of the token, or None ("") for a token
\* that is blacklisted or not valid
GetCurrentUserOptional(p, header) ==
    LET call == [ApIdle EXCEPT !.op = "optional", !.header = header]
        token == Credentials(header)
    IN
    /\ ap[p].pc = "idle"
    /\ ap' = [ap EXCEPT ![p] =
                 IF ~BearerAccepted(header)
                 THEN [call EXCEPT !.pc = "done", !.status = 403]
                 ELSE IF BlacklistLookup(<<token>>)
                 THEN [call EXCEPT !.pc = "done", !.order = LookupThen(<< >>)]
                 ELSE IF ~VerifyToken(token, "access")
                 THEN [call EXCEPT !.pc = "done",
                                   !.order = LookupThen(<<"verify">>)]
                 ELSE [call EXCEPT !.pc = "done", !.user = tokens[token].sub,
                                   !.order = LookupThen(<<"verify">>)]]
    /\ UNCHANGED <<redis, loggedOut, notAuth>>

\* POST /auth/refresh, refresh_access_token: verify_token of the refresh token
RefreshVerify(p, refresh_token) ==
    LET call == [ApIdle EXCEPT !.op = "refresh", !.token = refresh_token,
                               !.order = <<"verify">>]
    IN
    /\ ap[p].pc = "idle"
    /\ ap' = [ap EXCEPT ![p] =
                 IF VerifyToken(Head(refresh_token), "refresh")
                 THEN [call EXCEPT !.pc = "refresh_blacklist",
                                   !.user = tokens[Head(refresh_token)].sub]
                 ELSE [call EXCEPT !.pc = "done", !.status = 401]]
    /\ UNCHANGED <<redis, loggedOut, notAuth>>

\* refresh_access_token: then the blacklist, then create_access_token
RefreshBlacklistCheck(p) ==
    /\ ap[p].pc = "refresh_blacklist"
    /\ IF BlacklistLookup(ap[p].token)
       THEN /\ ap' = [ap EXCEPT ![p].pc = "done", ![p].status = 401,
                                ![p].order = @ \o LookupThen(<< >>)]
            /\ UNCHANGED tokens
       ELSE /\ TokenNames \ DOMAIN tokens # {}
            /\ ap' = [ap EXCEPT ![p].pc = "done", ![p].status = 200,
                                ![p].order = @ \o LookupThen(<< >>),
                                ![p].access_token = FreshToken]
            /\ tokens' = WithAccessToken(tokens, ap[p].user)
    /\ UNCHANGED <<redis, loggedOut, vp, otpHist, lp, rateHist, blHist, closed, env,
                   observe, now>>

\* the string logout blacklists
LogoutAccessToken(header) == ReplaceBearer(header)

\* the history of a string after blacklist_token
Blacklisted(token, expiry_minutes) ==
    [blHist EXCEPT ![token] =
        Seen("blacklist", @,
             [called |-> TRUE, ttl |-> Minutes(expiry_minutes), age |-> 0])]

\* blacklist_token: SETEX of the key of the string
BlacklistToken(token, expiry_minutes) ==
    /\ redis' = SetEx(redis, blacklist_key(token), Minutes(expiry_minutes), "1")
    /\ blHist' = Blacklisted(token, expiry_minutes)
    /\ UNCHANGED <<ap, notBlacklist>>

\* a call of is_token_blacklisted and its answer
CallIsTokenBlacklisted(p, token) ==
    /\ ap[p].pc = "idle"
    /\ ap' = [ap EXCEPT ![p] =
                 [ApIdle EXCEPT !.pc = "done", !.op = "is_token_blacklisted",
                                !.token = token,
                                !.result = IsTokenBlacklisted(redis, token)]]
    /\ UNCHANGED <<redis, loggedOut, notAuth>>

\* logout: blacklist_token of the access token for 15 minutes
LogoutBlacklistAccess(p) ==
    /\ ap[p].pc = "blacklist"
    /\ redis' = Stored(SetEx(redis, blacklist_key(LogoutAccessToken(ap[p].header)),
                             Minutes(BlacklistAccessMinutes), "1"))
    /\ blHist' = Blacklisted(LogoutAccessToken(ap[p].header), BlacklistAccessMinutes)
    /\ ap' = [ap EXCEPT ![p].pc = IF ap[p].token # << >> THEN "blacklist_refresh"
                                  ELSE "del_session"]
    /\ UNCHANGED notBlacklist

\* logout: blacklist_token of the refresh token of the form for 7 days
LogoutBlacklistRefresh(p) ==
    /\ ap[p].pc = "blacklist_refresh"
    /\ redis' = Stored(SetEx(redis, blacklist_key(ap[p].token),
                             Minutes(BlacklistRefreshMinutes), "1"))
    /\ blHist' = Blacklisted(ap[p].token, BlacklistRefreshMinutes)
    /\ ap' = [ap EXCEPT ![p].pc = "del_session"]
    /\ UNCHANGED notBlacklist

\* no request of the user other than that of p is between its first step and
\* its answer
NoOtherInFlight(user_id, p) ==
    /\ \A q \in Procs \ {p} :
          ap[q].pc \in {"idle", "done"} \/ ap[q].user # user_id
    /\ \A q \in Procs :
          lp[q].pc \in {"idle", "done"} \/ UserOfEmail(lp[q].email) # user_id

\* logout: delete_session, answer 200
LogoutDeleteSession(p) ==
    /\ ap[p].pc = "del_session"
    /\ redis' = Stored(SessionDeleted(redis, ap[p].user))
    /\ ap' = [ap EXCEPT ![p].pc = "done", ![p].status = 200]
    /\ loggedOut' = loggedOut \cup {Credentials(ap[p].header)}
                               \cup {ap[p].token[i] : i \in DOMAIN ap[p].token}
    /\ closed' = IF NoOtherInFlight(ap[p].user, p)
                 THEN Seen("closed", closed, closed \cup {ap[p].user})
                 ELSE Seen("deleted", closed, closed \cup {ap[p].user})
    /\ UNCHANGED <<vp, otpHist, lp, rateHist, tokens, blHist, env, observe, now>>

RequestReturn(p) ==
    /\ ap[p].pc = "done"
    /\ ap' = [ap EXCEPT ![p] = ApIdle]
    /\ UNCHANGED <<redis, loggedOut, notAuth>>

(***************************************************************************)
(* POST /api/transactions/initiate and the FUND_TRANSFER utterance of POST *)
(* /api/voice/process. The transaction id is made of the clock's second,   *)
(* the code comes from the banking service.                                *)
(***************************************************************************)
\* the store after store_otp, and the history of the key
OtpStored(s, user_id, otp, transaction_id) ==
    SetEx(s, otp_key(user_id, transaction_id), Minutes(OtpExpiryMinutes),
          StoreOtpRecord(user_id, otp, transaction_id))

InitiateTransfer(p, header, transaction_id, otp) ==
    /\ ap[p].pc = "idle"
    /\ ap' = [ap EXCEPT ![p] =
                 Dependency([ApIdle EXCEPT !.op = "initiate", !.header = header,
                                           !.transaction_id = transaction_id,
                                           !.otp = otp])]
    /\ UNCHANGED <<redis, loggedOut, notAuth>>

\* initiate_transfer: store_otp, answer 200 with the transaction id
InitiateStoreOtp(p) ==
    /\ ap[p].pc = "store_otp"
    /\ redis' = Stored(OtpStored(redis, ap[p].user, ap[p].otp,
                                 ap[p].transaction_id))
    /\ otpHist' = IF Reachable
                  THEN [otpHist EXCEPT
                           ![otp_key(ap[p].user, ap[p].transaction_id)] = Issued(@)]
                  ELSE otpHist
    /\ ap' = [ap EXCEPT ![p].pc = "done", ![p].status = 200]
    /\ UNCHANGED notTransfer

VoiceTransfer(p, header, transaction_id, otp) ==
    /\ ap[p].pc = "idle"
    /\ ap' = [ap EXCEPT ![p] =
                 Dependency([ApIdle EXCEPT !.op = "voice_transfer",
                                           !.header = header,
                                           !.transaction_id = transaction_id,
                                           !.otp = otp])]
    /\ UNCHANGED <<redis, loggedOut, notAuth>>

\* process_voice, FUND_TRANSFER: store_otp
VoiceStoreOtp(p) ==
    /\ ap[p].pc = "voice_store_otp"
    /\ IF env.redis_service
       THEN /\ redis' = Stored(OtpStored(redis, ap[p].user, ap[p].otp,
                                         ap[p].transaction_id))
            /\ ap' = [ap EXCEPT ![p].pc = "voice_get_session"]
       ELSE /\ redis' = redis
            /\ ap' = [ap EXCEPT ![p].pc = "done", ![p].status = 200]
    /\ otpHist' = IF Reachable
                  THEN [otpHist EXCEPT
                           ![otp_key(ap[p].user, ap[p].transaction_id)] = Issued(@)]
                  ELSE otpHist
    /\ UNCHANGED notTransfer

\* then get_session; a session that is there is given the pending transaction
VoiceGetSession(p) ==
    LET session == SessionRead(redis, ap[p].user) IN
    /\ ap[p].pc = "voice_get_session"
    /\ IF DOMAIN session # {}
       THEN ap' = [ap EXCEPT
                     ![p].pc = "voice_create_session",
                     ![p].session = DictSet(session, "pending_transaction_id",
                                            ap[p].transaction_id)]
       ELSE ap' = [ap EXCEPT ![p].pc = "done", ![p].status = 200]
    /\ UNCHANGED <<redis, otpHist, notTransfer>>

\* and create_session of it for 1440 minutes, answer 200
VoiceCreateSession(p) ==
    /\ ap[p].pc = "voice_create_session"
    /\ redis' = SessionCreated(redis, ap[p].user, ap[p].session,
                               VoiceSessionExpiryMinutes)
    /\ ap' = [ap EXCEPT ![p].pc = "done", ![p].status = 200]
    /\ UNCHANGED <<otpHist, notTransfer>>

(***************************************************************************)
(* POST /api/transactions/verify-otp and the OTP_VERIFICATION utterance of *)
(* POST /api/voice/process. Both call verify_otp, whose store commands are *)
(* the steps of the caller's verify_otp call. The endpoint checks the      *)
(* length of the code first, process_voice takes the six digits the agent  *)
(* extracted.                                                              *)
(***************************************************************************)
MsgNoPending == "No pending transaction found."
MsgCompleted == "Transaction completed"
MsgVoiceCompleted == "Transaction completed successfully!"
MsgUnavailable == "OTP service unavailable"
MsgInvalidFormat == "Invalid OTP format"

\* a faulty variant: no check of the code's length
OtpAnyFormat(otp) == TRUE

\* the endpoint's check of the form field: not empty, six characters
OtpWellFormed(otp) == otp # "" /\ Len(otp) = 6

VerifyEndpoint(p, header, transaction_id, otp) ==
    /\ ap[p].pc = "idle"
    /\ ap' = [ap EXCEPT ![p] =
                 Dependency([ApIdle EXCEPT !.op = "verify", !.header = header,
                                           !.transaction_id = transaction_id,
                                           !.otp = otp])]
    /\ UNCHANGED <<redis, loggedOut, notAuth>>

\* the endpoint calls verify_otp for the transaction of the form
EndpointVerifyOtp(p) ==
    /\ ap[p].pc = "verify_call"
    /\ env.redis_service
    /\ OtpWellFormed(ap[p].otp)
    /\ VerifyOtpGet(p, ap[p].user, ap[p].transaction_id, ap[p].otp)

\* and answers with what verify_otp returned; the session is not touched.
\* Without a store client it raises before the call, and so it does, with a
\* validation error, for a code that is not six characters long.
VerifyEndpointAnswer(p) ==
    /\ ap[p].pc = "verify_call"
    /\ IF ~env.redis_service
       THEN /\ ap' = [ap EXCEPT ![p].pc = "done", ![p].status = 500,
                                ![p].message = MsgUnavailable]
            /\ vp' = vp
       ELSE IF ~OtpWellFormed(ap[p].otp)
       THEN /\ ap' = [ap EXCEPT ![p].pc = "done", ![p].status = 400,
                                ![p].message = MsgInvalidFormat]
            /\ vp' = vp
       ELSE /\ vp[p].pc = "done"
            /\ ap' = [ap EXCEPT
                         ![p].pc = "done", ![p].status = 200,
                         ![p].result = vp[p].result.valid,
                         ![p].message = IF vp[p].result.valid THEN MsgCompleted
                                        ELSE vp[p].result.message]
            /\ vp' = [vp EXCEPT ![p] = VpIdle]
    /\ UNCHANGED <<redis, otpHist, lp, rateHist, tokens, loggedOut, blHist, closed,
                   env, observe, now>>

VoiceOtp(p, header, otp) ==
    /\ ap[p].pc = "idle"
    /\ ap' = [ap EXCEPT ![p] =
                 Dependency([ApIdle EXCEPT !.op = "voice_otp", !.header = header,
                                           !.otp = otp])]
    /\ UNCHANGED <<redis, loggedOut, notAuth>>

\* process_voice, OTP_VERIFICATION: get_session; a session that has the key
\* pending_transaction_id, whatever its value, names the transaction
VoiceOtpGetSession(p) ==
    LET session == SessionRead(redis, ap[p].user) IN
    /\ ap[p].pc = "votp_get_session"
    /\ IF ~env.redis_service
       THEN ap' = [ap EXCEPT ![p].pc = "done", ![p].status = 200]
       ELSE IF DOMAIN session # {} /\ "pending_transaction_id" \in DOMAIN session
       THEN ap' = [ap EXCEPT
                     ![p].pc = "votp_verify", ![p].session = session,
                     ![p].transaction_id = session["pending_transaction_id"]]
       ELSE ap' = [ap EXCEPT ![p].pc = "done", ![p].status = 200,
                             ![p].message = MsgNoPending]
    /\ UNCHANGED <<redis, loggedOut, notAuth>>

\* then verify_otp for that transaction
VoiceVerifyOtp(p) ==
    /\ ap[p].pc = "votp_verify"
    /\ VerifyOtpGet(p, ap[p].user, ap[p].transaction_id, ap[p].otp)

\* verify_otp has returned: valid, the pending transaction of the session that
\* was read is set to None and the session is written next; not valid, the
\* answer is the message and the session stays as it is
VoiceOtpAnswer(p) ==
    /\ ap[p].pc = "votp_verify"
    /\ vp[p].pc = "done"
    /\ IF vp[p].result.valid
       THEN ap' = [ap EXCEPT
                     ![p].pc = "votp_create_session", ![p].result = TRUE,
                     ![p].session = DictSet(@, "pending_transaction_id", "null")]
       ELSE ap' = [ap EXCEPT
                     ![p].pc = "done", ![p].status = 200,
                     ![p].message = "Invalid OTP. " \o vp[p].result.message]
    /\ vp' = [vp EXCEPT ![p] = VpIdle]
    /\ UNCHANGED <<redis, otpHist, lp, rateHist, tokens, loggedOut, blHist, closed,
                   env, observe, now>>

\* create_session of it for 1440 minutes, answer 200
VoiceOtpCreateSession(p) ==
    /\ ap[p].pc = "votp_create_session"
    /\ redis' = SessionCreated(redis, ap[p].user, ap[p].session,
                               VoiceSessionExpiryMinutes)
    /\ ap' = [ap EXCEPT ![p].pc = "done", ![p].status = 200,
                        ![p].message = MsgVoiceCompleted]
    /\ UNCHANGED <<otpHist, notTransfer>>

(***************************************************************************)
(* create_session and get_session called directly.                         *)
(***************************************************************************)
CallCreateSession(p, user_id, session_data, expiry_minutes) ==
    /\ ap[p].pc = "idle"
    /\ redis' = SessionCreated(redis, user_id, session_data, expiry_minutes)
    /\ ap' = [ap EXCEPT ![p] =
                 [ApIdle EXCEPT !.pc = "done", !.op = "create_session",
                                !.user = user_id, !.session = session_data]]
    /\ UNCHANGED <<loggedOut, notAuth>>

CallGetSession(p, user_id) ==
    /\ ap[p].pc = "idle"
    /\ ap' = [ap EXCEPT ![p] =
                 [ApIdle EXCEPT !.pc = "done", !.op = "get_session",
                                !.user = user_id,
                                !.result = HasSession(redis, user_id),
                                !.session = SessionRead(redis, user_id)]]
    /\ UNCHANGED <<redis, loggedOut, notAuth>>

(***************************************************************************)
(* The store goes away and comes back.                                     *)
(***************************************************************************)
StoreDown ==
    /\ env.redis_service /\ env.up
    /\ env' = [env EXCEPT !.up = FALSE]
    /\ UNCHANGED <<redis, vp, otpHist, lp, rateHist, ap, tokens, loggedOut, blHist,
                   closed, observe, now>>

StoreUp ==
    /\ env.redis_service /\ ~env.up
    /\ env' = [env EXCEPT !.up = TRUE]
    /\ UNCHANGED <<redis, vp, otpHist, lp, rateHist, ap, tokens, loggedOut, blHist,
                   closed, observe, now>>

(***************************************************************************)
(* Time passes.                                                            *)
(***************************************************************************)
\* a token after dt seconds: its validity runs out, the string stays what it is
Aged(tok, dt) == [tok EXCEPT !.left = IF @ > dt THEN @ - dt ELSE 0]

Tick(dt) ==
    /\ redis' = Expire(redis, dt)
    /\ tokens' = [t \in DOMAIN tokens |-> Aged(tokens[t], dt)]
    /\ blHist' = [t \in DOMAIN blHist |->
                     [blHist[t] EXCEPT !.age = IF @ + dt < blHist[t].ttl
                                               THEN @ + dt ELSE blHist[t].ttl]]
    /\ redis' # redis \/ tokens' # tokens \/ blHist' # blHist \/ "clock" \in observe
    /\ rateHist' = [k \in DOMAIN rateHist |->
                       IF KeyExists(redis, k) /\ ~KeyExists(redis', k)
                       THEN [calls |-> 0, allowed |-> 0,
                             elapsed |-> Seen("elapsed", rateHist[k].elapsed, TRUE)]
                       ELSE rateHist[k]]
    /\ otpHist' = [k \in DOMAIN otpHist |->
                      IF KeyExists(redis, k) /\ ~KeyExists(redis', k)
                      THEN [otpHist[k] EXCEPT !.gone = Seen("gone", @, "expired")]
                      ELSE otpHist[k]]
    /\ now' = IF "clock" \in observe THEN now + dt ELSE now
    /\ UNCHANGED <<vp, lp, ap, loggedOut, closed, env, observe>>

OtpIdle == \A p \in Procs : vp[p].pc = "idle"

OtpNext ==
    \/ \E u \in Users, t \in Txns, c \in Codes : StoreOtp(u, c, t)
    \/ \E p \in Procs, u \in Users, t \in Txns, c \in Codes : VerifyOtpGet(p, u, t, c)
    \/ \E p \in Procs : VerifyOtpDeleteExhausted(p)
    \/ \E p \in Procs : VerifyOtpDeleteVerified(p)
    \/ \E p \in Procs : VerifyOtpTtl(p)
    \/ \E p \in Procs : VerifyOtpRewrite(p)
    \/ \E p \in Procs : VerifyOtpReturn(p)
    \/ Tick(TickSeconds)

OtpSpec == Init /\ [][OtpNext]_vars

\* the calls on the store one after the other: a call begins when none is under way
OtpSeqInit == InitState /\ env = DefaultEnv /\ observe = {"wrongs", "verified"}

OtpSeqNext ==
    \/ OtpIdle /\ \E u \in Users, t \in Txns, c \in Codes : StoreOtp(u, c, t)
    \/ OtpIdle /\ \E p \in Procs, u \in Users, t \in Txns, c \in Codes :
                      VerifyOtpGet(p, u, t, c)
    \/ \E p \in Procs : VerifyOtpDeleteExhausted(p)
    \/ \E p \in Procs : VerifyOtpDeleteVerified(p)
    \/ \E p \in Procs : VerifyOtpTtl(p)
    \/ \E p \in Procs : VerifyOtpRewrite(p)
    \/ \E p \in Procs : VerifyOtpReturn(p)
    \/ Tick(TickSeconds)

OtpSeqSpec == OtpSeqInit /\ [][OtpSeqNext]_vars

\* concurrent calls for one user, the comparisons counted
RaceUsers == {"U1"}

OtpRaceInit == InitState /\ env = DefaultEnv /\ observe = {"compares"}

OtpRaceNext ==
    \/ \E u \in RaceUsers, t \in Txns, c \in Codes : StoreOtp(u, c, t)
    \/ \E p \in Procs, u \in RaceUsers, t \in Txns, c \in Codes :
           VerifyOtpGet(p, u, t, c)
    \/ \E p \in Procs : VerifyOtpDeleteExhausted(p)
    \/ \E p \in Procs : VerifyOtpDeleteVerified(p)
    \/ \E p \in Procs : VerifyOtpTtl(p)
    \/ \E p \in Procs : VerifyOtpRewrite(p)
    \/ \E p \in Procs : VerifyOtpReturn(p)
    \/ Tick(TickSeconds)

OtpRaceSpec == OtpRaceInit /\ [][OtpRaceNext]_vars

\* records issued at second 0 of the clock, and calls for them while it runs
OtpClockInit == InitState /\ env = DefaultEnv /\ observe = {"clock"}

OtpClockNext ==
    \/ \E u \in RaceUsers, t \in Txns, c \in Codes : now = 0 /\ StoreOtp(u, c, t)
    \/ \E p \in Procs, u \in RaceUsers, t \in Txns, c \in Codes :
           VerifyOtpGet(p, u, t, c)
    \/ \E p \in Procs : VerifyOtpDeleteExhausted(p)
    \/ \E p \in Procs : VerifyOtpDeleteVerified(p)
    \/ \E p \in Procs : VerifyOtpTtl(p)
    \/ \E p \in Procs : VerifyOtpRewrite(p)
    \/ \E p \in Procs : VerifyOtpReturn(p)
    \/ now < ClockTicks * TickSeconds /\ Tick(TickSeconds)

OtpClockSpec == OtpClockInit /\ [][OtpClockNext]_vars

\* concurrent calls for one user, the answers valid counted
OtpValidInit == InitState /\ env = DefaultEnv /\ observe = {"valids"}

OtpValidSpec == OtpValidInit /\ [][OtpRaceNext]_vars

\* concurrent calls for one user, what became of the records followed
OtpGoneInit == InitState /\ env = DefaultEnv /\ observe = {"gone"}

OtpGoneSpec == OtpGoneInit /\ [][OtpRaceNext]_vars

\* logins one after the other, with a wrong password
OneProc == {"p1"}

RateSeqInit == InitState /\ env = DefaultEnv /\ observe = {"calls", "elapsed"}

RateSeqNext ==
    \/ \E p \in OneProc, e \in Emails : LoginGet(p, e, FALSE)
    \/ \E p \in OneProc : LoginSetexFirst(p)
    \/ \E p \in OneProc : LoginTtlDenied(p)
    \/ \E p \in OneProc : LoginIncr(p)
    \/ \E p \in OneProc : LoginTtlAllowed(p)
    \/ \E p \in OneProc : LoginReturn(p)
    \/ Tick(TickSeconds)

RateSeqSpec == RateSeqInit /\ [][RateSeqNext]_vars

\* concurrent logins with a wrong password
RateInit == InitState /\ env = DefaultEnv /\ observe = {"allowed"}

RateNext ==
    \/ \E p \in Procs, e \in Emails : LoginGet(p, e, FALSE)
    \/ \E p \in Procs : LoginSetexFirst(p)
    \/ \E p \in Procs : LoginTtlDenied(p)
    \/ \E p \in Procs : LoginIncr(p)
    \/ \E p \in Procs : LoginTtlAllowed(p)
    \/ \E p \in Procs : LoginReturn(p)
    \/ Tick(TickSeconds)

RateSpec == RateInit /\ [][RateNext]_vars

\* concurrent logins with a right or a wrong password
LoginNext ==
    \/ \E p \in Procs, e \in Emails, ok \in BOOLEAN : LoginGet(p, e, ok)
    \/ \E p \in Procs : LoginSetexFirst(p)
    \/ \E p \in Procs : LoginTtlDenied(p)
    \/ \E p \in Procs : LoginIncr(p)
    \/ \E p \in Procs : LoginTtlAllowed(p)
    \/ \E p \in Procs : LoginCreateSession(p)
    \/ \E p \in Procs : LoginReturn(p)
    \/ Tick(AuthTickSeconds)

LoginSpec == Init /\ [][LoginNext]_vars

\* logins, requests with a token and logouts, one of each kind at a time
AuthNext ==
    \/ \E p \in OneProc, e \in Emails, ok \in BOOLEAN : LoginGet(p, e, ok)
    \/ \E p \in OneProc : LoginSetexFirst(p)
    \/ \E p \in OneProc : LoginTtlDenied(p)
    \/ \E p \in OneProc : LoginIncr(p)
    \/ \E p \in OneProc : LoginTtlAllowed(p)
    \/ \E p \in OneProc : LoginCreateSession(p)
    \/ \E p \in OneProc : LoginReturn(p)
    \/ \E p \in OneProc, op \in {"me", "logout"}, h \in Headers : GetCurrentUser(p, op, h)
    \/ \E p \in OneProc : LogoutBlacklistAccess(p)
    \/ \E p \in OneProc : LogoutDeleteSession(p)
    \/ \E p \in OneProc : RequestReturn(p)
    \/ Tick(AuthTickSeconds)

AuthSpec == Init /\ [][AuthNext]_vars

\* blacklist_token and is_token_blacklisted called directly, with the lifetimes
\* logout uses
BlacklistMinutes == {BlacklistAccessMinutes, BlacklistRefreshMinutes}

BlacklistInit == InitState /\ env = DefaultEnv /\ observe = {"blacklist"}

BlacklistNext ==
    \/ \E t \in TokenStrings, m \in BlacklistMinutes : BlacklistToken(t, m)
    \/ \E p \in OneProc, t \in TokenStrings : CallIsTokenBlacklisted(p, t)
    \/ \E p \in OneProc : RequestReturn(p)
    \/ Tick(LongTickSeconds)

BlacklistSpec == BlacklistInit /\ [][BlacklistNext]_vars

\* the settings JWT_EXPIRATION_MINUTES and JWT_REFRESH_EXPIRATION_DAYS can have
AccessMinutesSettings == {AccessTokenExpireMinutes, 2 * AccessTokenExpireMinutes}
RefreshDaysSettings == {RefreshTokenExpireDays, 2 * RefreshTokenExpireDays}

\* what a client can send as a refresh token
RefreshInputs == {<<t>> : t \in RefreshNames \cup TokenNames}

\* logins, refreshes, requests with a token and logouts, under each setting
TokenInit ==
    /\ InitState
    /\ env \in {[DefaultEnv EXCEPT !.access_minutes = a, !.refresh_days = d] :
                   a \in AccessMinutesSettings, d \in RefreshDaysSettings}
    /\ observe = {"refresh"}

\* the headers of the clients that write the scheme as the login answer does
BearerHeaders == {<<"Bearer", t>> : t \in TokenNames}

\* the first login, then refreshes, requests with a token and logouts
TokenNext ==
    \/ \E p \in OneProc, e \in Emails :
          tokens = EmptyStore /\ LoginGet(p, e, TRUE)
    \/ \E p \in OneProc : LoginSetexFirst(p)
    \/ \E p \in OneProc : LoginCreateSession(p)
    \/ \E p \in OneProc : LoginReturn(p)
    \/ \E p \in OneProc, h \in BearerHeaders : GetCurrentUser(p, "me", h)
    \/ \E p \in OneProc, h \in BearerHeaders : GetCurrentUserOptional(p, h)
    \/ \E p \in OneProc, h \in BearerHeaders, r \in RefreshInputs :
          LogoutWithRefresh(p, h, r)
    \/ \E p \in OneProc, r \in RefreshInputs : RefreshVerify(p, r)
    \/ \E p \in OneProc : RefreshBlacklistCheck(p)
    \/ \E p \in OneProc : LogoutBlacklistAccess(p)
    \/ \E p \in OneProc : LogoutBlacklistRefresh(p)
    \/ \E p \in OneProc : LogoutDeleteSession(p)
    \/ \E p \in OneProc : RequestReturn(p)
    \/ Tick(LongTickSeconds)

TokenSpec == TokenInit /\ [][TokenNext]_vars

\* create_session and get_session called directly by concurrent callers, with
\* the payloads and lifetimes main.py gives them
SessionPayloads ==
    {LoginSessionData("rahul@demo.com"),
     DictSet(LoginSessionData("rahul@demo.com"), "pending_transaction_id", "TXN1"),
     DictSet(LoginSessionData("rahul@demo.com"), "pending_transaction_id", "null"),
     [name |-> "Priya"]}

SessionMinutes == {SessionExpiryMinutes, VoiceSessionExpiryMinutes}

SessionNext ==
    \/ \E p \in Procs, u \in Users, d \in SessionPayloads, m \in SessionMinutes :
          CallCreateSession(p, u, d, m)
    \/ \E p \in Procs, u \in Users : CallGetSession(p, u)
    \/ \E p \in Procs : RequestReturn(p)
    \/ Tick(LongTickSeconds)

SessionSpec == Init /\ [][SessionNext]_vars

\* the tokens of logins that have not answered yet: no client has them
Undelivered == {lp[p].access_token : p \in {q \in Procs : lp[q].pc = "session"}}

DeliveredHeaders == {h \in BearerHeaders : Credentials(h) \notin Undelivered}

\* logins, requests with a token, transfers by form and logouts of one client,
\* transfers by voice of another
FlowInit == InitState /\ env = DefaultEnv /\ observe = {"closed"}

FlowNext ==
    \/ \E p \in OneProc, e \in Emails : LoginGet(p, e, TRUE)
    \/ \E p \in OneProc : LoginSetexFirst(p)
    \/ \E p \in OneProc : LoginIncr(p)
    \/ \E p \in OneProc : LoginTtlAllowed(p)
    \/ \E p \in OneProc : LoginCreateSession(p)
    \/ \E p \in OneProc : LoginReturn(p)
    \/ \E p \in OneProc, op \in {"me", "logout"}, h \in DeliveredHeaders :
          GetCurrentUser(p, op, h)
    \/ \E p \in OneProc, h \in DeliveredHeaders, t \in FlowTxns, c \in FlowCodes :
          InitiateTransfer(p, h, t, c)
    \/ \E p \in VoiceProcs, h \in DeliveredHeaders, t \in FlowTxns, c \in FlowCodes :
          VoiceTransfer(p, h, t, c)
    \/ \E p \in Procs : InitiateStoreOtp(p)
    \/ \E p \in Procs : VoiceStoreOtp(p)
    \/ \E p \in Procs : VoiceGetSession(p)
    \/ \E p \in Procs : VoiceCreateSession(p)
    \/ \E p \in Procs : LogoutBlacklistAccess(p)
    \/ \E p \in Procs : LogoutDeleteSession(p)
    \/ \E p \in Procs : RequestReturn(p)
    \/ Tick(LongTickSeconds)

FlowSpec == FlowInit /\ [][FlowNext]_vars

\* the same requests, every logout that deleted the session followed
FlowRaceInit == InitState /\ env = DefaultEnv /\ observe = {"closed", "deleted"}

FlowRaceSpec == FlowRaceInit /\ [][FlowNext]_vars

\* get_all_active_sessions: the number of session records
ActiveSessions(s) == Cardinality({k \in DOMAIN s : k[1] = "session"})

\* one client: the first login, a transfer by voice, then verifications by form
\* and by voice, one request after the other
PendingNext ==
    \/ \E p \in OneProc, e \in Emails :
          tokens = EmptyStore /\ LoginGet(p, e, TRUE)
    \/ \E p \in OneProc : LoginSetexFirst(p)
    \/ \E p \in OneProc : LoginCreateSession(p)
    \/ \E p \in OneProc : LoginReturn(p)
    \/ \E p \in OneProc, h \in DeliveredHeaders, t \in Txns, c \in FlowCodes :
          VoiceTransfer(p, h, t, c)
    \/ \E p \in OneProc : VoiceStoreOtp(p)
    \/ \E p \in OneProc : VoiceGetSession(p)
    \/ \E p \in OneProc : VoiceCreateSession(p)
    \/ \E p \in OneProc, h \in DeliveredHeaders, t \in Txns, c \in Codes :
          VerifyEndpoint(p, h, t, c)
    \/ \E p \in OneProc : EndpointVerifyOtp(p)
    \/ \E p \in OneProc : VerifyEndpointAnswer(p)
    \/ \E p \in OneProc, h \in DeliveredHeaders, c \in Codes : VoiceOtp(p, h, c)
    \/ \E p \in OneProc : VoiceOtpGetSession(p)
    \/ \E p \in OneProc : VoiceVerifyOtp(p)
    \/ \E p \in OneProc : VoiceOtpAnswer(p)
    \/ \E p \in OneProc : VoiceOtpCreateSession(p)
    \/ \E p \in OneProc : VerifyOtpDeleteExhausted(p)
    \/ \E p \in OneProc : VerifyOtpDeleteVerified(p)
    \/ \E p \in OneProc : VerifyOtpTtl(p)
    \/ \E p \in OneProc : VerifyOtpRewrite(p)
    \/ \E p \in OneProc : RequestReturn(p)
    \/ Tick(TickSeconds)

PendingSpec == Init /\ [][PendingNext]_vars

\* one user's transfers by form and by voice while the clock runs: each transfer
\* takes its transaction id from the clock
ClockInit == InitState /\ env = DefaultEnv /\ observe = {"clock"}

ClockNext ==
    \/ \E p \in OneProc, e \in Emails :
          tokens = EmptyStore /\ LoginGet(p, e, TRUE)
    \/ \E p \in OneProc : LoginSetexFirst(p)
    \/ \E p \in OneProc : LoginCreateSession(p)
    \/ \E p \in OneProc : LoginReturn(p)
    \/ \E p \in OneProc, h \in DeliveredHeaders, c \in Codes :
          InitiateTransfer(p, h, TransactionId(now), c)
    \/ \E p \in VoiceProcs, h \in DeliveredHeaders, c \in Codes :
          VoiceTransfer(p, h, TransactionId(now), c)
    \/ \E p \in Procs : InitiateStoreOtp(p)
    \/ \E p \in Procs : VoiceStoreOtp(p)
    \/ \E p \in Procs : VoiceGetSession(p)
    \/ \E p \in Procs : VoiceCreateSession(p)
    \/ \E p \in Procs : RequestReturn(p)
    \/ now < ClockTicks * TickSeconds /\ Tick(TickSeconds)

ClockSpec == ClockInit /\ [][ClockNext]_vars

\* logins, requests with a token and logouts of one client while the store
\* comes and goes, or with no store client since startup
OutageInit ==
    /\ InitState
    /\ env \in {[DefaultEnv EXCEPT !.redis_service = c] : c \in BOOLEAN}
    /\ observe = {}

OutageNext ==
    \/ \E p \in OneProc, e \in Emails, ok \in BOOLEAN : LoginGet(p, e, ok)
    \/ \E p \in OneProc : LoginSetexFirst(p)
    \/ \E p \in OneProc : LoginTtlDenied(p)
    \/ \E p \in OneProc : LoginIncr(p)
    \/ \E p \in OneProc : LoginTtlAllowed(p)
    \/ \E p \in OneProc, e \in Emails, ok \in BOOLEAN : LoginRateCheckFails(p, e, ok)
    \/ \E p \in OneProc, e \in Emails, ok \in BOOLEAN : LoginNoClient(p, e, ok)
    \/ \E p \in OneProc : LoginCreateSession(p)
    \/ \E p \in OneProc : LoginReturn(p)
    \/ \E p \in OneProc, op \in {"me", "logout"}, h \in DeliveredHeaders :
          GetCurrentUser(p, op, h)
    \/ \E p \in OneProc : LogoutBlacklistAccess(p)
    \/ \E p \in OneProc : LogoutDeleteSession(p)
    \/ \E p \in OneProc : RequestReturn(p)
    \/ StoreDown
    \/ StoreUp
    \/ Tick(LongTickSeconds)

OutageSpec == OutageInit /\ [][OutageNext]_vars

\* codes of other lengths than six
MalformedCodes == {"", "12345", "1234567"}

\* one client's first login, a transfer by form and verifications by form with
\* codes of any length, with a store client or with none since startup
FormatNext ==
    \/ \E p \in OneProc, e \in Emails :
          tokens = EmptyStore /\ LoginGet(p, e, TRUE)
    \/ \E p \in OneProc : LoginSetexFirst(p)
    \/ \E p \in OneProc, e \in Emails :
          tokens = EmptyStore /\ LoginNoClient(p, e, TRUE)
    \/ \E p \in OneProc : LoginCreateSession(p)
    \/ \E p \in OneProc : LoginReturn(p)
    \/ \E p \in OneProc, h \in DeliveredHeaders, t \in Txns, c \in FlowCodes :
          InitiateTransfer(p, h, t, c)
    \/ \E p \in OneProc : InitiateStoreOtp(p)
    \/ \E p \in OneProc, h \in DeliveredHeaders, t \in Txns,
          c \in Codes \cup MalformedCodes :
          VerifyEndpoint(p, h, t, c)
    \/ \E p \in OneProc : EndpointVerifyOtp(p)
    \/ \E p \in OneProc : VerifyEndpointAnswer(p)
    \/ \E p \in OneProc : VerifyOtpDeleteExhausted(p)
    \/ \E p \in OneProc : VerifyOtpDeleteVerified(p)
    \/ \E p \in OneProc : VerifyOtpTtl(p)
    \/ \E p \in OneProc : VerifyOtpRewrite(p)
    \/ \E p \in OneProc : RequestReturn(p)
    \/ Tick(TickSeconds)

FormatSpec == OutageInit /\ [][FormatNext]_vars

\* one client's first login, transfers by form and verifications by form while
\* the store comes and goes, or with no store client since startup
OtpOutageNext ==
    \/ \E p \in OneProc, e \in Emails :
          tokens = EmptyStore /\ LoginGet(p, e, TRUE)
    \/ \E p \in OneProc : LoginSetexFirst(p)
    \/ \E p \in OneProc, e \in Emails :
          tokens = EmptyStore /\ LoginRateCheckFails(p, e, TRUE)
    \/ \E p \in OneProc, e \in Emails :
          tokens = EmptyStore /\ LoginNoClient(p, e, TRUE)
    \/ \E p \in OneProc : LoginCreateSession(p)
    \/ \E p \in OneProc : LoginReturn(p)
    \/ \E p \in OneProc, h \in DeliveredHeaders, t \in Txns, c \in FlowCodes :
          InitiateTransfer(p, h, t, c)
    \/ \E p \in OneProc : InitiateStoreOtp(p)
    \/ \E p \in OneProc, h \in DeliveredHeaders, t \in Txns, c \in Codes :
          VerifyEndpoint(p, h, t, c)
    \/ \E p \in OneProc : EndpointVerifyOtp(p)
    \/ \E p \in OneProc : VerifyEndpointAnswer(p)
    \/ \E p \in OneProc : VerifyOtpDeleteExhausted(p)
    \/ \E p \in OneProc : VerifyOtpDeleteVerified(p)
    \/ \E p \in OneProc : VerifyOtpTtl(p)
    \/ \E p \in OneProc : VerifyOtpRewrite(p)
    \/ \E p \in OneProc : RequestReturn(p)
    \/ StoreDown
    \/ StoreUp
    \/ Tick(TickSeconds)

OtpOutageSpec == OutageInit /\ [][OtpOutageNext]_vars

(***************************************************************************)
(* Steps of a verify_otp call, as seen from outside.                       *)
(***************************************************************************)
\* p makes its call on this step: the GET
Calls(p) == vp[p].pc = "idle" /\ vp'[p].pc # "idle"

\* the key of the call p makes on this step
CalledKey(p) == otp_key(vp'[p].user_id, vp'[p].transaction_id)

\* p gets its answer on this step
Answers(p) == vp[p].pc # "done" /\ vp'[p].pc = "done"

IsInvalid(result) ==
    /\ ~result.valid
    /\ result.attempts_left >= 0
    /\ result.message = MsgInvalid(result.attempts_left)

(***************************************************************************)
(* C1. Calls one after the other: a verify_otp call that finds a record    *)
(* with attempts < max_attempts and the submitted code is answered valid   *)
(* and leaves no record; a later call for the same key with the same code, *)
(* with no store_otp for the key in between, is answered "OTP expired or   *)
(* not found" with attempts_left = 0.                                      *)
(***************************************************************************)
C1_VerifiedThenNotFound ==
    [][\A p \in Procs :
        /\ ( /\ Calls(p)
              /\ KeyExists(redis, CalledKey(p))
              /\ redis[CalledKey(p)].val.attempts < MaxAttempts
              /\ redis[CalledKey(p)].val.otp = vp'[p].otp )
           => vp'[p].pc = "del_ok"
        /\ (vp[p].pc = "del_ok" /\ vp'[p] # vp[p])
           => /\ vp'[p].pc = "done"
              /\ vp'[p].result.valid
              /\ ~KeyExists(redis', VpKey(p))
        /\ (Calls(p) /\ otpHist[CalledKey(p)].verified = vp'[p].otp)
           => /\ vp'[p].pc = "done"
              /\ vp'[p].result = Result(FALSE, MsgNotFound, 0)
              /\ redis' = redis
    ]_vars

\* a call with the code that was verified has been answered "not found"
C1_Witness ==
    \E p \in Procs :
        /\ vp[p].pc = "done"
        /\ otpHist[VpKey(p)].verified = vp[p].otp
        /\ vp[p].result = Result(FALSE, MsgNotFound, 0)

(***************************************************************************)
(* C2. Calls one after the other, max_attempts = 3: the answer to the k-th *)
(* wrong code since the issuance reports attempts_left = 3 - k, so the     *)
(* third reports 0; the next call that finds the record is answered        *)
(* "Maximum OTP attempts exceeded" whatever code it submits, and leaves no *)
(* record.                                                                 *)
(***************************************************************************)
C2_ThreeWrongThenExhausted ==
    [][\A p \in Procs :
        /\ (Answers(p) /\ IsInvalid(vp'[p].result))
           => /\ otpHist'[VpKey(p)].wrongs <= MaxAttempts
              /\ vp'[p].result.attempts_left =
                     MaxAttempts - otpHist'[VpKey(p)].wrongs
        /\ ( /\ Calls(p)
              /\ otpHist[CalledKey(p)].wrongs = MaxAttempts
              /\ KeyExists(redis, CalledKey(p)) )
           => vp'[p].pc = "del_max"
        /\ (vp[p].pc = "del_max" /\ vp'[p] # vp[p])
           => /\ vp'[p].pc = "done"
              /\ vp'[p].result = Result(FALSE, MsgExhausted, 0)
              /\ ~KeyExists(redis', VpKey(p))
    ]_vars

\* after three wrong codes a call with the right code has been refused
C2_Witness ==
    \E p \in Procs :
        /\ vp[p].pc = "del_max"
        /\ otpHist[VpKey(p)].wrongs = MaxAttempts
        /\ vp[p].otp_data.otp = vp[p].otp

(***************************************************************************)
(* C3. Under every interleaving of store_otp, verify_otp and expiry, a     *)
(* call is answered valid only if the record it read itself, under the key *)
(* of its own user and transaction, held the submitted code and had        *)
(* attempts < max_attempts.                                                *)
(***************************************************************************)
C3_ValidOnlyForStoredCode ==
    [][\A p \in Procs :
        (Answers(p) /\ vp'[p].result.valid)
        => /\ vp[p].pc = "del_ok"
           /\ vp[p].otp_data.otp = vp[p].otp
           /\ vp[p].otp_data.user_id = vp[p].user_id
           /\ vp[p].otp_data.transaction_id = vp[p].transaction_id
           /\ vp[p].otp_data.attempts < MaxAttempts
           /\ vp[p].otp_data.attempts >= 0
    ]_vars

\* a call has been answered valid while another call on the same key was rewriting
C3_Witness ==
    \E p, q \in Procs :
        /\ p # q
        /\ vp[p].pc = "done"
        /\ vp[p].result.valid
        /\ vp[q].pc = "setex"
        /\ VpKey(q) = VpKey(p)

(***************************************************************************)
(* C4. In every reachable state, concurrent calls included, the attempts   *)
(* of a record in the store are between 0 and max_attempts; a call that    *)
(* reads a record with attempts = max_attempts deletes it.                 *)
(***************************************************************************)
OtpAttemptsInRange ==
    \A k \in OtpKeys :
        KeyExists(redis, k) =>
            /\ redis[k].val.attempts >= 0
            /\ redis[k].val.attempts <= MaxAttempts

C4_AttemptsBounded ==
    /\ []OtpAttemptsInRange
    /\ [][\A p \in Procs :
            /\ ( /\ Calls(p)
                  /\ KeyExists(redis, CalledKey(p))
                  /\ redis[CalledKey(p)].val.attempts = MaxAttempts )
               => vp'[p].pc = "del_max"
            /\ (vp[p].pc = "del_max" /\ vp'[p] # vp[p])
               => ~KeyExists(redis', VpKey(p))
       ]_vars

\* a record at max_attempts while a concurrent call is about to rewrite it
C4_Witness ==
    \E k \in OtpKeys, p \in Procs :
        /\ KeyExists(redis, k)
        /\ redis[k].val.attempts = MaxAttempts
        /\ vp[p].pc = "setex"
        /\ VpKey(p) = k

(***************************************************************************)
(* C5. For one issued record, at most max_attempts + 1 calls compare a     *)
(* submitted code with it, under every interleaving.                       *)
(***************************************************************************)
C5_AtMostOneExtraAttempt ==
    \A k \in OtpKeys : otpHist[k].compares <= MaxAttempts + 1

(***************************************************************************)
(* Steps of a login, as seen from outside.                                 *)
(***************************************************************************)
LoginKey(p) == rate_key(lp'[p].email, "login")

\* check_rate_limit answers the login of p
RateAnswers(p) ==
    /\ lp[p].pc \in {"setex_first", "ttl_deny", "ttl_allow"}
    /\ lp'[p].pc \in {"done", "session"}

\* the key is a counter with time left
WindowOpen(s, k) == KeyExists(s, k) /\ s[k].ttl # NoExpiry

(***************************************************************************)
(* C6. Of the sequential check_rate_limit calls that fall inside the       *)
(* window the first of them started, the first max_requests are allowed    *)
(* and the (max_requests+1)-th and every later one is denied.              *)
(***************************************************************************)
C6_AllowedUpToMax ==
    [][\A p \in Procs :
          (RateAnswers(p) /\ WindowOpen(redis', LoginKey(p)))
          => ( lp'[p].rate_check.allowed
               <=> rateHist'[LoginKey(p)].calls <= LoginMaxRequests )
      ]_vars

\* the (max_requests+1)-th call of an open window has been denied
C6_Witness ==
    \E p \in Procs :
        /\ lp[p].pc = "done"
        /\ lp[p].status = 429
        /\ WindowOpen(redis, LpKey(p))
        /\ rateHist[LpKey(p)].calls = LoginMaxRequests + 1

(***************************************************************************)
(* C7. A check_rate_limit call made after the window has fully elapsed     *)
(* starts a fresh counter: it is allowed, the key is recreated at 1 with   *)
(* the full window as its lifetime, and remaining is max_requests - 1.     *)
(***************************************************************************)
C7_FreshCounterAfterWindow ==
    [][\A p \in Procs :
          LET k == LoginKey(p) IN
          /\ (lp[p].pc = "idle" /\ lp'[p].pc # "idle" /\ rateHist[k].elapsed)
             => lp'[p].pc = "setex_first"
          /\ (lp[p].pc = "setex_first" /\ RateAnswers(p))
             => /\ lp'[p].rate_check =
                     RateResult(TRUE, LoginMaxRequests - 1, LoginWindowMinutes * 60)
                /\ KeyExists(redis', k)
                /\ redis'[k] = [val |-> 1, ttl |-> Minutes(LoginWindowMinutes)]
      ]_vars

(***************************************************************************)
(* C8. Under every interleaving of concurrent check_rate_limit calls the   *)
(* stored counter of an unexpired key is at most max_requests, and at most *)
(* max_requests calls are allowed within one window.                       *)
(***************************************************************************)
C8_CounterAtMostMax ==
    \A k \in RateKeys :
        /\ WindowOpen(redis, k) => redis[k].val <= LoginMaxRequests
        /\ rateHist[k].allowed <= LoginMaxRequests

(***************************************************************************)
(* C9. Whenever check_rate_limit denies a call, reset_in is a strictly     *)
(* positive number of seconds, the time the window has left, and the login *)
(* is answered 429.                                                        *)
(***************************************************************************)
C9_DeniedWithPositiveReset ==
    [][\A p \in Procs :
          (RateAnswers(p) /\ ~lp'[p].rate_check.allowed)
          => /\ lp'[p].status = 429
             /\ lp'[p].rate_check.reset_in > 0
             /\ WindowOpen(redis', LoginKey(p))
             /\ lp'[p].rate_check.reset_in = redis'[LoginKey(p)].ttl
      ]_vars

(***************************************************************************)
(* C10. Once logout has answered success to a request that presented       *)
(* access token T, every later request presenting T is answered 401.       *)
(***************************************************************************)
C10_LoggedOutTokenRejected ==
    [][\A p \in Procs :
          ( /\ ap[p].pc = "idle"
            /\ ap'[p].pc # "idle"
            /\ Credentials(ap'[p].header) \in loggedOut )
          => (ap'[p].pc = "done" /\ ap'[p].status = 401)
      ]_vars

(***************************************************************************)
(* C11. is_token_blacklisted(token) answers true right after               *)
(* blacklist_token(token, ttl) and until ttl has passed since the last     *)
(* such call, false once it has; a blacklist_token call for one string     *)
(* leaves the answer for every other string as it was.                     *)
(***************************************************************************)
C11_BlacklistRoundTrip ==
    [][/\ \A p \in Procs :
            (ap[p].pc = "idle" /\ ap'[p].op = "is_token_blacklisted")
            => ( ap'[p].result
                 <=> ( /\ blHist[ap'[p].token].called
                       /\ blHist[ap'[p].token].age < blHist[ap'[p].token].ttl ) )
       /\ \A t \in TokenStrings :
            blHist'[t] = blHist[t]
            => ( IsTokenBlacklisted(redis', t) <=> IsTokenBlacklisted(redis, t) )
      ]_vars

\* a string is answered not blacklisted after its time ran out while another
\* string still is
C11_Witness ==
    \E p \in Procs, t \in TokenStrings :
        /\ ap[p].op = "is_token_blacklisted"
        /\ ap[p].token # t
        /\ ~ap[p].result
        /\ blHist[ap[p].token].called
        /\ IsTokenBlacklisted(redis, t)

(***************************************************************************)
(* C12. On every path that authenticates a presented token the blacklist   *)
(* lookup comes before the validation of the token's signature and expiry: *)
(* no path validates a token it has not yet looked up.                     *)
(***************************************************************************)
C12_BlacklistBeforeSignature ==
    \A p \in Procs :
        \A i \in DOMAIN ap[p].order :
            ap[p].order[i] = "verify"
            => \E j \in 1..(i - 1) : ap[p].order[j] = "blacklist"

(***************************************************************************)
(* C13. Once logout has answered success to a request that supplied        *)
(* refresh token R, every later refresh_access_token(R) is answered 401    *)
(* and issues no access token, for as long as R has not expired.           *)
(***************************************************************************)
C13_LoggedOutRefreshRejected ==
    [][\A p \in Procs :
          ( /\ ap[p].pc = "refresh_blacklist"
            /\ ap'[p].pc = "done"
            /\ Head(ap[p].token) \in loggedOut
            /\ VerifyToken(Head(ap[p].token), "refresh") )
          => (ap'[p].status = 401 /\ tokens' = tokens)
      ]_vars

(***************************************************************************)
(* C14. The blacklist entry logout writes for a token lasts at least as    *)
(* long as the token is still valid, under every setting of the token      *)
(* lifetimes.                                                              *)
(***************************************************************************)
C14_BlacklistOutlivesToken ==
    [][\A p \in Procs :
          /\ (ap[p].pc = "blacklist" /\ ap'[p].pc # "blacklist")
             => redis'[blacklist_key(<<Credentials(ap[p].header)>>)].ttl
                    >= tokens[Credentials(ap[p].header)].left
          /\ ( /\ ap[p].pc = "blacklist_refresh"
               /\ ap'[p].pc # "blacklist_refresh"
               /\ Head(ap[p].token) \in DOMAIN tokens )
             => redis'[blacklist_key(ap[p].token)].ttl
                    >= tokens[Head(ap[p].token)].left
      ]_vars

(***************************************************************************)
(* C15. create_session(user, B) leaves get_session(user) returning exactly *)
(* B, whatever session A the user had before, and the store never holds    *)
(* more than one session record of a user.                                 *)
(***************************************************************************)
C15_SessionReplaced ==
    /\ [][\A p \in Procs :
            (ap[p].pc = "idle" /\ ap'[p].op = "create_session")
            => /\ HasSession(redis', ap'[p].user)
               /\ SessionRead(redis', ap'[p].user) = ap'[p].session
               /\ Cardinality(SessionKeysOf(redis', ap'[p].user)) = 1
       ]_vars
    /\ [](\A u \in Users : Cardinality(SessionKeysOf(redis, u)) <= 1)

\* create_session with a payload without pending transaction, after one with it
\* for the same user, and the later one is what the store holds
C15_Witness ==
    \E p, q \in Procs :
        /\ ap[p].op = "create_session"
        /\ ap[q].op = "create_session"
        /\ ap[p].user = ap[q].user
        /\ "pending_transaction_id" \in DOMAIN ap[p].session
        /\ "pending_transaction_id" \notin DOMAIN ap[q].session
        /\ DOMAIN ap[q].session \subseteq DOMAIN ap[p].session
        /\ SessionRead(redis, ap[q].user) = ap[q].session

\* the step in which a logout of the user answers 200 while no other request
\* of the user is in flight
QuietLogout(p, user_id) ==
    /\ ap[p].op = "logout" /\ ap[p].pc = "del_session" /\ ap[p].user = user_id
    /\ ap'[p].pc = "done" /\ ap'[p].status = 200
    /\ NoOtherInFlight(user_id, p)

\* C16: when logout answers success for a user with no other request of the user
\* in flight, the store holds no session record of the user, get_session
\* answers absent and the user is not among the active sessions; this stays so
\* until the user logs in again.
C16_NoSessionAfterLogout ==
    /\ [][\A p \in Procs, u \in Users :
            QuietLogout(p, u)
            => /\ ~HasSession(redis', u)
               /\ SessionRead(redis', u) = EmptyDict
               /\ SessionKeysOf(redis', u) = {}]_vars
    /\ [](\A u \in closed :
            /\ ~HasSession(redis, u)
            /\ SessionKeysOf(redis, u) = {}
            /\ ActiveSessions(redis) = Cardinality({v \in Users \ closed :
                                                     HasSession(redis, v)}))

\* a user is logged out and stays without a session while a later request of
\* the user, with a token that is still good, has been answered
C16_Witness ==
    /\ "U1" \in closed
    /\ \E p \in Procs :
          /\ ap[p].op = "voice_transfer" /\ ap[p].pc = "done"
          /\ ap[p].status = 200 /\ ap[p].user = "U1"
    /\ \E q \in Procs : ap[q].op = "logout" /\ ap[q].pc = "done"
\* the step in which get_current_user lets a request through
Admitted(p) ==
    /\ ap[p].pc = "idle" /\ ap'[p].pc # "idle"
    /\ ap'[p].op \in {"me", "initiate", "voice_transfer"}
    /\ ap'[p].status # 401

\* C19: a request is let through as authenticated only if get_session returns
\* a session for its user; without one (deleted by logout, expired, store
\* error) the caller is made to authenticate again.
C19_ServedOnlyWithSession ==
    [][\A p \in Procs : Admitted(p) => HasSession(redis, ap'[p].user)]_vars

\* the step in which a transfer initiation answers success
Initiated(p) ==
    /\ ap[p].op \in {"initiate", "voice_transfer"}
    /\ ap[p].pc # "done" /\ ap'[p].pc = "done" /\ ap'[p].status = 200

\* the pending transaction of a session payload, "null" if it has none
PendingOf(session) ==
    IF "pending_transaction_id" \in DOMAIN session
    THEN session["pending_transaction_id"] ELSE "null"

\* C20: when a transfer initiation, by form or by voice, answers success, the
\* caller's session holds the new transaction id as its pending transaction and
\* the OTP record is stored under that id.
C20_PendingRecorded ==
    [][\A p \in Procs :
          Initiated(p)
          => /\ PendingOf(SessionRead(redis', ap[p].user)) = ap[p].transaction_id
             /\ KeyExists(redis', otp_key(ap[p].user, ap[p].transaction_id))]_vars
\* login goes on to authenticate_user and answers by the credentials alone
ProceedsToAuthentication(before, after) ==
    /\ after.status # 429
    /\ IF Authenticates(after.email, after.password_ok)
       THEN after.pc = "session" /\ after.access_token # ""
       ELSE after.pc = "done" /\ after.status = 401

\* the step of a login in which a store command of check_rate_limit is sent
RateCommand(p) ==
    /\ lp[p].pc \in {"idle", "setex_first", "ttl_deny", "incr", "ttl_allow"}
    /\ lp'[p] # lp[p]

\* C17: when a store command of check_rate_limit fails, whichever it is, the
\* call answers allowed (never a denial) and login goes on to authenticate the
\* credentials; with no store client since startup login is not limited either.
C17_RateLimitFailsOpen ==
    [][\A p \in Procs :
          /\ (RateCommand(p) /\ env.redis_service /\ ~env.up)
             => /\ lp'[p].rate_check = RateResult(TRUE, LoginMaxRequests,
                                                  LoginWindowMinutes * 60)
                /\ ProceedsToAuthentication(lp[p], lp'[p])
          /\ (RateCommand(p) /\ ~env.redis_service)
             => ProceedsToAuthentication(lp[p], lp'[p])]_vars

\* the counter of the email is at its maximum and, the store being away, a
\* login with the right password has gone through
C17_Witness ==
    \E p \in Procs :
        /\ ~env.up
        /\ lp[p].pc = "done" /\ lp[p].status = 200
        /\ lp[p].rate_check = RateResult(TRUE, LoginMaxRequests, LoginWindowMinutes * 60)
        /\ KeyExists(redis, rate_key(lp[p].email, "login"))
        /\ redis[rate_key(lp[p].email, "login")].val >= LoginMaxRequests

\* the step in which get_current_user handles the token of a request
TokenChecked(p) ==
    /\ ap[p].pc = "idle" /\ ap'[p].pc # "idle"
    /\ ap'[p].op \in {"me", "logout"}

\* C18: with the store unavailable when a token is checked, get_current_user
\* goes on to verify the token and accepts the request exactly if the
\* signature, expiry and type are good, revoked or not; it rejects no request
\* because of the outage.
C18_BlacklistFailsOpen ==
    [][\A p \in Procs :
          (TokenChecked(p) /\ ~Reachable)
          => /\ "verify" \in {ap'[p].order[i] : i \in DOMAIN ap'[p].order}
             /\ ap'[p].status # 401
                <=> VerifyToken(Credentials(ap'[p].header), "access")]_vars

\* a revoked token, still in the blacklist, has been accepted while the store
\* is away
C18_Witness ==
    \E p \in Procs :
        /\ env.redis_service /\ ~env.up
        /\ ap[p].op = "me" /\ ap[p].pc = "done" /\ ap[p].status = 200
        /\ IsTokenBlacklisted(redis, <<Credentials(ap[p].header)>>)
(***************************************************************************)
(* The causes of a refusal, as the call finds them at its GET.             *)
(***************************************************************************)
\* the key of the call holds no record
CauseAbsent(p) == Calls(p) /\ ~KeyExists(redis, CalledKey(p))

\* the record has used up its attempts
CauseExhausted(p) ==
    /\ Calls(p) /\ KeyExists(redis, CalledKey(p))
    /\ redis[CalledKey(p)].val.attempts >= MaxAttempts

\* the record is live and holds another code than the submitted one
CauseWrongCode(p) ==
    /\ Calls(p) /\ KeyExists(redis, CalledKey(p))
    /\ redis[CalledKey(p)].val.attempts < MaxAttempts
    /\ redis[CalledKey(p)].val.otp # vp'[p].otp

\* C24: verify_otp answers each cause of a refusal with its own outcome: a
\* wrong code on a live record "Invalid OTP. N attempts left" with
\* attempts_left = N, no record "OTP expired or not found", a record at the
\* maximum "Maximum OTP attempts exceeded"; and no outcome is given for
\* another cause.
C24_DistinctOutcomes ==
    [][\A p \in Procs :
          /\ CauseAbsent(p)
             => vp'[p].pc = "done" /\ vp'[p].result.message = MsgNotFound
          /\ CauseExhausted(p) => vp'[p].pc = "del_max"
          /\ CauseWrongCode(p) => vp'[p].pc = "ttl"
          /\ (Answers(p) /\ vp[p].pc = "del_max")
             => vp'[p].result.message = MsgExhausted
          /\ (Answers(p) /\ vp[p].pc = "setex")
             => IsInvalid(vp'[p].result)
          /\ (Answers(p) /\ vp'[p].result.message = MsgNotFound)
             => vp[p].pc = "idle" /\ ~KeyExists(redis, VpKey(p))
          /\ (Answers(p) /\ vp'[p].result.message = MsgExhausted)
             => vp[p].pc = "del_max"
          /\ (Answers(p) /\ IsInvalid(vp'[p].result))
             => vp[p].pc = "setex"
    ]_vars
\* the step in which a call that read a wrong code on a live record ends
WrongCodeEnds(p) == vp[p].pc = "setex" /\ Answers(p)

\* C25: a verify_otp call with a wrong code on a record with attempts = a <
\* max_attempts rewrites the record with attempts = a+1 and the same code, user
\* and transaction, with an expiry no later than before, and answers valid =
\* false with attempts_left = max_attempts - (a+1).
C25_WrongCodeRewrite ==
    [][\A p \in Procs :
          WrongCodeEnds(p)
          => LET k == VpKey(p)
                 a == vp[p].otp_data.attempts - 1
             IN /\ KeyExists(redis, k) /\ KeyExists(redis', k)
                /\ redis'[k].val = [redis[k].val EXCEPT !.attempts = a + 1]
                /\ redis'[k].ttl <= redis[k].ttl
                /\ vp'[p].result =
                       Result(FALSE, MsgInvalid(MaxAttempts - (a + 1)),
                              MaxAttempts - (a + 1))
    ]_vars
\* C23: store_otp for a key that still holds a record writes over it, with
\* attempts 0 and the full 5 minutes, a code that is not the code it replaces.
C23_ReissueFreshCode ==
    [][\A u \in Users, t \in Txns, c \in Codes :
          (StoreOtp(u, c, t) /\ KeyExists(redis, otp_key(u, t)))
          => /\ redis'[otp_key(u, t)] =
                   [val |-> otp_data(c, t, u, 0), ttl |-> Minutes(OtpExpiryMinutes)]
             /\ redis[otp_key(u, t)].val.otp # c
    ]_vars

\* C26: verify_otp for a key that holds no record, never issued, consumed or
\* expired alike, answers valid = false, "OTP expired or not found",
\* attempts_left = 0, in the one step of its GET, and leaves the store as it is.
C26_AbsentAnsweredAlike ==
    [][\A p \in Procs :
          CauseAbsent(p)
          => /\ vp'[p].pc = "done"
             /\ vp'[p].result = Result(FALSE, MsgNotFound, 0)
             /\ redis' = redis
    ]_vars

\* calls for one key have found no record when it was never issued, when it
\* had been consumed and when it had expired
C26_Witness ==
    \E k \in OtpKeys :
        /\ {"never", "consumed", "expired"} \subseteq otpHist[k].answered
        /\ ~KeyExists(redis, k)
        /\ \E p \in Procs : vp[p].pc = "done" /\ VpKey(p) = k
                              /\ vp[p].result.message = MsgNotFound

\* C30: for one issued record at most one verify_otp call is answered valid,
\* under every interleaving of concurrent calls with the right code.
C30_AtMostOneValid ==
    \A k \in OtpKeys : otpHist[k].valids <= 1
\* C27: the window of a rate-limit key is fixed by its first request: a denied
\* call changes neither the counter nor its expiry, an allowed increment
\* leaves the expiry as it is, and a call that finds the window expired is
\* allowed again.
C27_WindowFixedByFirstRequest ==
    [][\A p \in Procs :
          /\ (lp[p].pc = "ttl_deny" /\ RateAnswers(p)) => redis' = redis
          /\ (lp[p].pc = "incr" /\ lp'[p].pc = "ttl_allow")
             => /\ WindowOpen(redis, LoginKey(p))
                /\ redis'[LoginKey(p)].ttl = redis[LoginKey(p)].ttl
                /\ redis'[LoginKey(p)].val = redis[LoginKey(p)].val + 1
          /\ (lp[p].pc = "idle" /\ lp'[p].pc # "idle"
                /\ ~KeyExists(redis, LoginKey(p)))
             => lp'[p].pc = "setex_first"
      ]_vars
\* C28: an allowed check_rate_limit call reports remaining = max_requests minus
\* the value of the counter after the call (max_requests - 1 for the first call
\* of a window), under every interleaving, and never a negative number; a
\* denied call reports 0.
C28_RemainingMatchesCounter ==
    [][\A p \in Procs :
          /\ (lp[p].pc = "incr" /\ lp'[p].pc = "ttl_allow"
                /\ KeyExists(redis, LoginKey(p)))
             => LoginMaxRequests - lp[p].count - 1
                    = LoginMaxRequests - redis'[LoginKey(p)].val
          /\ (lp[p].pc = "ttl_allow" /\ RateAnswers(p))
             => /\ lp'[p].rate_check.allowed
                /\ lp'[p].rate_check.remaining = LoginMaxRequests - lp[p].count - 1
                /\ lp'[p].rate_check.remaining >= 0
          /\ (lp[p].pc = "setex_first" /\ RateAnswers(p))
             => /\ lp'[p].rate_check.allowed
                /\ lp'[p].rate_check.remaining = LoginMaxRequests - 1
                /\ redis'[LoginKey(p)].val = 1
          /\ (RateAnswers(p) /\ ~lp'[p].rate_check.allowed)
             => lp'[p].rate_check.remaining = 0
      ]_vars
\* the login of p moves on this step
LoginSteps(p) == lp'[p] # lp[p]

\* C29: in every login the rate-limit check comes before the authentication
\* and counts the attempt whatever the credentials; a denied attempt is
\* answered 429 with no authentication, no token and no session; a session is
\* created only after the authentication succeeded.
C29_RateCheckBeforeAuthentication ==
    [][\A p \in Procs :
          /\ (LoginSteps(p) /\ lp[p].pc = "idle")
             => /\ lp'[p].pc \in {"setex_first", "incr", "ttl_deny"}
                /\ lp'[p].status = 0 /\ lp'[p].access_token = ""
                /\ tokens' = tokens /\ redis' = redis
          /\ (LoginSteps(p) /\ lp[p].pc = "setex_first")
             => /\ KeyExists(redis', LoginKey(p)) /\ redis'[LoginKey(p)].val = 1
                /\ lp'[p].rate_check.allowed
          /\ (LoginSteps(p) /\ lp[p].pc = "incr" /\ KeyExists(redis, LoginKey(p)))
             => redis'[LoginKey(p)].val = redis[LoginKey(p)].val + 1
          /\ (LoginSteps(p) /\ lp'[p].pc = "done" /\ lp'[p].status = 401)
             => /\ lp[p].pc \in {"setex_first", "ttl_allow"}
                /\ lp'[p].rate_check.allowed
                /\ ~Authenticates(lp[p].email, lp[p].password_ok)
                /\ tokens' = tokens
          /\ (RateAnswers(p) /\ ~lp'[p].rate_check.allowed)
             => /\ lp'[p].pc = "done" /\ lp'[p].status = 429
                /\ lp'[p].access_token = ""
                /\ tokens' = tokens /\ redis' = redis
          /\ (LoginSteps(p) /\ tokens' # tokens)
             => /\ lp[p].pc \in {"setex_first", "ttl_allow"}
                /\ lp'[p].rate_check.allowed
                /\ Authenticates(lp[p].email, lp[p].password_ok)
          /\ (LoginSteps(p) /\ lp[p].pc = "session")
             => /\ lp[p].rate_check.allowed
                /\ Authenticates(lp[p].email, lp[p].password_ok)
                /\ lp'[p].status = 200
                /\ HasSession(redis', UserOfEmail(lp[p].email))
          /\ (LoginSteps(p) /\ lp[p].pc # "session")
             => SessionKeysOf(redis', UserOfEmail(lp'[p].email))
                    = SessionKeysOf(redis, UserOfEmail(lp'[p].email))
      ]_vars

\* a login with the right password has been denied, with no token issued and
\* no session, after wrong passwords used up the window
C29_Witness ==
    \E p \in Procs :
        /\ lp[p].pc = "done" /\ lp[p].status = 429 /\ lp[p].password_ok
        /\ tokens = EmptyStore
        /\ ~HasSession(redis, UserOfEmail(lp[p].email))
        /\ redis[LpKey(p)].val >= LoginMaxRequests
\* the step in which a transfer initiation stores its OTP
OtpIssued(p) ==
    /\ ap[p].pc \in {"store_otp", "voice_store_otp"}
    /\ ap'[p].pc # ap[p].pc
    /\ KeyExists(redis', otp_key(ap[p].user, ap[p].transaction_id))

\* the rate-limit counters of an identifier in the store
RateKeysOf(s, user_id) == {k \in DOMAIN s : k[1] = "rate" /\ k[2] = user_id}

\* C22: every transfer initiation, by form or by voice, calls the rate limiter
\* for its user before the OTP is stored: when the OTP is stored the request
\* has made the call, which left a counter of the user in the store.
C22_TransferRateLimited ==
    [][\A p \in Procs :
          OtpIssued(p)
          => /\ "rate_limit" \in {ap[p].order[i] : i \in DOMAIN ap[p].order}
             /\ RateKeysOf(redis, ap[p].user) # {}
      ]_vars
\* verify_otp has settled the record: verified, or refused for good
Settled(result) == result.valid \/ result.message = MsgExhausted

\* the step in which a verification, by form or by voice, of the pending
\* transaction of the caller's session is answered once verify_otp settled it
Resolves(p) ==
    /\ ap[p].pc # "done" /\ ap'[p].pc = "done"
    /\ \/ ap[p].op = "verify" /\ ap[p].pc = "verify_call" /\ Settled(vp[p].result)
       \/ ap[p].op = "voice_otp" /\ ap[p].pc = "votp_verify" /\ Settled(vp[p].result)
       \/ ap[p].op = "voice_otp" /\ ap[p].pc = "votp_create_session"
    /\ \/ PendingOf(SessionRead(redis, ap[p].user)) = ap[p].transaction_id
       \/ PendingOf(ap[p].session) = ap[p].transaction_id
       \/ ap[p].pc = "votp_create_session"

\* C21: once the verification of the pending transaction is resolved, by the
\* verify-otp endpoint or by voice, the session holds no pending transaction,
\* and an OTP utterance that finds none is answered "No pending transaction
\* found." without a verify_otp call.
C21_PendingCleared ==
    [][\A p \in Procs :
          /\ Resolves(p)
             => PendingOf(SessionRead(redis', ap[p].user)) = "null"
          /\ (ap[p].pc = "votp_get_session" /\ ap'[p].pc # ap[p].pc
                /\ PendingOf(SessionRead(redis, ap[p].user)) = "null")
             => ap'[p].pc = "done" /\ ap'[p].message = MsgNoPending
      ]_vars

(***************************************************************************)
(* C31: once a verify_otp call has deleted an OTP record, on success or on *)
(* exhaustion, the key stays absent until store_otp is called again for    *)
(* it, whatever a concurrent wrong-code call rewrites afterwards.          *)
(***************************************************************************)
Deleted(k) == otpHist[k].gone \in {"consumed", "exhausted"}

C31_DeletedStaysAbsent ==
    \A k \in OtpKeys : Deleted(k) => ~KeyExists(redis, k)

(***************************************************************************)
(* C32: every rate-limit key in the store carries a finite expiry in every *)
(* reachable state, also when the key expires between the read of the      *)
(* counter and its increment.                                              *)
(***************************************************************************)
C32_RateKeysExpire ==
    \A k \in RateKeys : KeyExists(redis, k) => redis[k].ttl # NoExpiry

(***************************************************************************)
(* C33: two transfers of one user get distinct transaction ids, so that    *)
(* the store_otp of a transfer never overwrites the OTP record of an       *)
(* earlier transfer that is still pending, also within one clock second.   *)
(***************************************************************************)
StoresOtp(p) ==
    /\ ap[p].pc \in {"store_otp", "voice_store_otp"}
    /\ ap'[p].pc # ap[p].pc

C33_NoOverwriteOfPendingOtp ==
    [][\A p \in Procs :
          StoresOtp(p) =>
              ~KeyExists(redis, otp_key(ap[p].user, ap[p].transaction_id))]_vars

(***************************************************************************)
(* C34: a verify_otp call for a user reads, rewrites and deletes only the  *)
(* record of that user and transaction. No step of the call changes the    *)
(* record of another user, and the call goes on to a valid answer only     *)
(* when the record under the caller's own key holds the submitted code,    *)
(* also when the transaction id and the code of another user's record are  *)
(* the same.                                                               *)
(***************************************************************************)
OtpRecordsOf(s) == {k \in DOMAIN s : k[1] = "otp"}

\* the key is the caller's own: the user and the transaction of the call
OwnKey(call, k) == k = <<"otp", call.user_id, call.transaction_id>>

SameRecord(k) ==
    /\ KeyExists(redis, k) <=> KeyExists(redis', k)
    /\ KeyExists(redis, k) => redis'[k] = redis[k]

C34_OnlyOwnRecord ==
    [][\A p \in Procs :
          (vp'[p] # vp[p] /\ vp'[p].pc # "idle") =>
              /\ \A k \in OtpRecordsOf(redis) \cup OtpRecordsOf(redis') :
                    ~OwnKey(vp'[p], k) => SameRecord(k)
              /\ vp'[p].pc = "del_ok" =>
                    \E k \in OtpRecordsOf(redis) :
                        /\ OwnKey(vp'[p], k)
                        /\ redis[k].val.user_id = vp'[p].user_id
                        /\ redis[k].val.otp = vp'[p].otp
              /\ vp'[p].result.valid => vp[p].pc = "del_ok" ]_vars

\* a call for U1 was answered valid while the record of U2 for the same
\* transaction, holding the same code, is in the store untouched
C34_Witness ==
    \E p \in Procs :
        /\ vp[p].pc = "done" /\ vp[p].result.valid /\ vp[p].user_id = "U1"
        /\ KeyExists(redis, <<"otp", "U2", vp[p].transaction_id>>)
        /\ redis[<<"otp", "U2", vp[p].transaction_id>>].val =
               otp_data(vp[p].otp, vp[p].transaction_id, "U2", 0)

(***************************************************************************)
(* C35: after logout has deleted the session of a user, the store holds no *)
(* session record of the user until the user's next successful login, also *)
(* when a voice request of the user that read the session before the       *)
(* logout writes it back afterwards.                                       *)
(***************************************************************************)
C35_SessionStaysDeleted == \A u \in closed : ~HasSession(redis, u)

(***************************************************************************)
(* C36: an OTP record never outlives the expiry fixed at its issuance.     *)
(* With every record issued at second 0 of the clock, no record is in the  *)
(* store 5 minutes later, and the rewrite of a failed attempt never leaves *)
(* the record more time than it had.                                       *)
(***************************************************************************)
Rewrites(p) == vp[p].pc = "setex" /\ vp'[p].pc = "done"

C36_ExpiryFixedAtIssuance ==
    /\ [](\A k \in OtpKeys :
             now >= Minutes(OtpExpiryMinutes) => ~KeyExists(redis, k))
    /\ [][\A p \in Procs :
             (Rewrites(p) /\ KeyExists(redis, VpKey(p)))
             => Ttl(redis', VpKey(p)) <= Ttl(redis, VpKey(p))]_vars

(***************************************************************************)
(* C37: a store command of verify_otp sent while the store is down ends    *)
(* the call with valid = false and attempts_left = 0, the store as it was; *)
(* an answer valid comes only from a DELETE the store carried out; the     *)
(* verify-otp endpoint answers a failed call as a failed verification, and *)
(* with no store client it rejects the request without calling verify_otp. *)
(***************************************************************************)
CallStep(p) == vp'[p] # vp[p] /\ vp'[p].pc # "idle"

EndpointAnswers(p) ==
    ap[p].op = "verify" /\ ap[p].pc = "verify_call" /\ ap'[p].pc = "done"

C37_StoreFailureNotVerified ==
    [][\A p \in Procs :
          /\ (CallStep(p) /\ ~env.up)
             => /\ vp'[p].pc = "done"
                /\ ~vp'[p].result.valid
                /\ vp'[p].result.attempts_left = 0
                /\ redis' = redis
          /\ (CallStep(p) /\ vp'[p].result.valid)
             => env.up /\ ~KeyExists(redis', VpKey(p))
          /\ (EndpointAnswers(p) /\ env.redis_service)
             => /\ ap'[p].status = 200
                /\ ap'[p].result = vp[p].result.valid
                /\ ~vp[p].result.valid => ap'[p].message = vp[p].result.message
          /\ (EndpointAnswers(p) /\ ~env.redis_service)
             => /\ ap'[p].status # 200
                /\ ~ap'[p].result
                /\ ap'[p].message = MsgUnavailable
                /\ vp[p].pc = "idle"
                /\ redis' = redis ]_vars

\* the endpoint has answered "OTP verification failed" to the right code: the
\* record is in the store, the store was down when the call reached it
C37_Witness ==
    \E p \in Procs :
        /\ ap[p].op = "verify" /\ ap[p].pc = "done" /\ ~ap[p].result
        /\ ap[p].message = MsgFailed /\ ~env.up
        /\ KeyExists(redis, <<"otp", ap[p].user, ap[p].transaction_id>>)
        /\ redis[<<"otp", ap[p].user, ap[p].transaction_id>>].val.otp = ap[p].otp

(***************************************************************************)
(* C38: whenever initiate_transfer answers success with a transaction id   *)
(* and a code, the store holds at that moment the OTP record of the user   *)
(* and the transaction with exactly that code.                             *)
(***************************************************************************)
InitiateAnswers(p) ==
    /\ ap[p].op = "initiate" /\ ap[p].pc = "store_otp"
    /\ ap'[p].pc = "done" /\ ap'[p].status = 200

C38_IssuedMeansStored ==
    [][\A p \in Procs :
          InitiateAnswers(p) =>
             LET k == <<"otp", ap[p].user, ap[p].transaction_id>> IN
             /\ KeyExists(redis', k)
             /\ redis'[k].val.otp = ap[p].otp
             /\ redis'[k].ttl = Minutes(OtpExpiryMinutes) ]_vars

(***************************************************************************)
(* C39: a verify-otp request whose code is empty or not six characters     *)
(* long never reaches verify_otp: the endpoint answers it without a store  *)
(* command, the OTP record's attempts, code and expiry as they were. In a  *)
(* process with a store client the answer is the validation error; with no *)
(* store client it is "OTP service unavailable", as for any code.          *)
(***************************************************************************)
Malformed(otp) == otp = "" \/ Len(otp) # 6

MalformedRequest(p) == ap[p].op = "verify" /\ Malformed(ap[p].otp)

MalformedAnswered(p) ==
    MalformedRequest(p) /\ ap[p].pc = "verify_call" /\ ap'[p].pc # ap[p].pc

C39_MalformedRejectedUnconsumed ==
    [][\A p \in Procs :
          /\ (MalformedRequest(p) /\ ap[p].pc = "verify_call")
             => vp[p].pc = "idle" /\ vp'[p] = vp[p]
          /\ MalformedAnswered(p)
             => /\ ap'[p].pc = "done" /\ ~ap'[p].result
                /\ redis' = redis
                /\ env.redis_service
                   => ap'[p].status = 400 /\ ap'[p].message = MsgInvalidFormat
                /\ ~env.redis_service
                   => ap'[p].status = 500 /\ ap'[p].message = MsgUnavailable ]_vars

\* C39 as stated: the answer to a malformed code is the validation error
C39_AlwaysValidationError ==
    [][\A p \in Procs :
          MalformedAnswered(p)
          => ap'[p].status = 400 /\ ap'[p].message = MsgInvalidFormat]_vars

\* a malformed code was answered with the validation error while the record of
\* the transaction, one wrong attempt counted, is in the store
C39_Witness ==
    \E p \in Procs :
        /\ MalformedRequest(p) /\ ap[p].pc = "done" /\ ap[p].status = 400
        /\ KeyExists(redis, <<"otp", ap[p].user, ap[p].transaction_id>>)
        /\ redis[<<"otp", ap[p].user, ap[p].transaction_id>>].val.attempts = 1

============================================================================
